---- MODULE Spec2Model ----
(***************************************************************************)
(* A model of the Game Boy (DMG) emulator core: the memory bus of          *)
(* GameBoy::memmap, the OAM DMA engine, the PPU's HBlank mode and the      *)
(* SM83 micro-step state machines of CALL, ADD (16 bit) and OR.            *)
(***************************************************************************)
EXTENDS Integers, Sequences, FiniteSets, TLC

VARIABLES
  mmu,    \* every device reachable through the bus (GameBoy::memmap)
  ev,     \* the last operation performed on the machine
  nops,   \* operations performed so far
  hist,   \* what the run has done so far (the transfer under way)
  ppu,    \* the PPU's internal state (dot clock, mode, window line)
  cpu,    \* the CPU: register file, current Operation, last Return
  gb,     \* the machine's cycle count and the timer's internals
  debug_assertions,  \* the build profile: cfg(debug_assertions)
  ctor    \* the cartridge constructor called, its image and its outcome

vars == <<mmu, ev, nops, hist, ppu, cpu, gb, debug_assertions, ctor>>

(***************************************************************************)
(* Machine integers.                                                       *)
(***************************************************************************)
U8(x)  == x % 256
U16(x) == x % 65536

RECURSIVE BitAnd(_, _)
BitAnd(x, y) ==
  IF x = 0 \/ y = 0 THEN 0
  ELSE (x % 2) * (y % 2) + 2 * BitAnd(x \div 2, y \div 2)

RECURSIVE BitOr(_, _)
BitOr(x, y) ==
  IF x = 0 THEN y
  ELSE IF y = 0 THEN x
  ELSE (IF x % 2 = 1 \/ y % 2 = 1 THEN 1 ELSE 0) + 2 * BitOr(x \div 2, y \div 2)

Min(S) == CHOOSE x \in S : \A y \in S : x <= y

(***************************************************************************)
(* remus memories: a Ram is zero-filled at construction; the model keeps   *)
(* the cells that were written and reads every other cell as zero.         *)
(***************************************************************************)
Blank == [i \in {} |-> 0]

RamRead(m, i) == IF i \in DOMAIN m THEN m[i] ELSE 0

RamWrite(m, i, v) == [j \in DOMAIN m \cup {i} |-> IF j = i THEN v ELSE m[j]]

(***************************************************************************)
(* ROM images.  BOOT is the DMG boot ROM and SETUP_ROM the cartridge image *)
(* of tests::setup (0x150 bytes, header kind 0x08, ROM size code 0).       *)
(***************************************************************************)
BOOT ==
  <<
    49, 254, 255, 175, 33, 255, 159, 50, 203, 124, 32, 251, 33, 38, 255, 14,
    17, 62, 128, 50, 226, 12, 62, 243, 226, 50, 62, 119, 119, 62, 252, 224,
    71, 17, 4, 1, 33, 16, 128, 26, 205, 149, 0, 205, 150, 0, 19, 123,
    254, 52, 32, 243, 17, 216, 0, 6, 8, 26, 19, 34, 35, 5, 32, 249,
    62, 25, 234, 16, 153, 33, 47, 153, 14, 12, 61, 40, 8, 50, 13, 32,
    249, 46, 15, 24, 243, 103, 62, 100, 87, 224, 66, 62, 145, 224, 64, 4,
    30, 2, 14, 12, 240, 68, 254, 144, 32, 250, 13, 32, 247, 29, 32, 242,
    14, 19, 36, 124, 30, 131, 254, 98, 40, 6, 30, 193, 254, 100, 32, 6,
    123, 226, 12, 62, 135, 226, 240, 66, 144, 224, 66, 21, 32, 210, 5, 32,
    79, 22, 32, 24, 203, 79, 6, 4, 197, 203, 17, 23, 193, 203, 17, 23,
    5, 32, 245, 34, 35, 34, 35, 201, 206, 237, 102, 102, 204, 13, 0, 11,
    3, 115, 0, 131, 0, 12, 0, 13, 0, 8, 17, 31, 136, 137, 0, 14,
    220, 204, 110, 230, 221, 221, 217, 153, 187, 187, 103, 99, 110, 14, 236, 204,
    221, 220, 153, 159, 187, 185, 51, 62, 60, 66, 185, 165, 185, 165, 66, 60,
    33, 4, 1, 17, 168, 0, 26, 19, 190, 32, 254, 35, 125, 254, 52, 32,
    245, 6, 25, 120, 134, 35, 5, 32, 251, 134, 32, 254, 62, 1, 224, 80
  >>

SETUP_ROM ==
  <<
    195, 139, 2, 0, 0, 0, 0, 0, 195, 139, 2, 255, 255, 255, 255, 255,
    255, 255, 255, 255, 255, 255, 255, 255, 255, 255, 255, 255, 255, 255, 255, 255,
    255, 255, 255, 255, 255, 255, 255, 255, 135, 225, 95, 22, 0, 25, 94, 35,
    86, 213, 225, 233, 255, 255, 255, 255, 255, 255, 255, 255, 255, 255, 255, 255,
    195, 253, 1, 255, 255, 255, 255, 255, 195, 18, 39, 255, 255, 255, 255, 255,
    195, 18, 39, 255, 255, 255, 255, 255, 195, 126, 1, 255, 255, 255, 255, 255,
    255, 255, 255, 255, 255, 255, 255, 255, 255, 255, 255, 255, 255, 255, 255, 255,
    255, 255, 255, 255, 255, 255, 255, 255, 255, 255, 255, 255, 255, 255, 255, 255,
    255, 255, 255, 255, 255, 255, 255, 255, 255, 255, 255, 255, 255, 255, 255, 255,
    255, 255, 255, 255, 255, 255, 255, 255, 255, 255, 255, 255, 255, 255, 255, 255,
    255, 255, 255, 255, 255, 255, 255, 255, 255, 255, 255, 255, 255, 255, 255, 255,
    255, 255, 255, 255, 255, 255, 255, 255, 255, 255, 255, 255, 255, 255, 255, 255,
    255, 255, 255, 255, 255, 255, 255, 255, 255, 255, 255, 255, 255, 255, 255, 255,
    255, 255, 255, 255, 255, 255, 255, 255, 255, 255, 255, 255, 255, 255, 255, 255,
    255, 255, 255, 255, 255, 255, 255, 255, 255, 255, 255, 255, 255, 255, 255, 255,
    255, 255, 255, 255, 255, 255, 255, 255, 255, 255, 255, 255, 255, 255, 255, 255,
    0, 195, 80, 1, 206, 237, 102, 102, 204, 13, 0, 11, 3, 115, 0, 131,
    0, 12, 0, 13, 0, 8, 17, 31, 136, 137, 0, 14, 220, 204, 110, 230,
    221, 221, 217, 153, 187, 187, 103, 99, 110, 14, 236, 204, 221, 220, 153, 159,
    187, 185, 51, 62, 0, 0, 0, 0, 0, 0, 0, 0, 0, 0, 0, 0,
    0, 0, 0, 0, 0, 0, 0, 8, 0, 2, 1, 0, 0, 220, 49, 187
  >>

\* Header::romsz of the setup cartridge: 32 KiB << rom[0x148].
ROMSZ == 32768

\* Cartridge::mbc: the image, 0xff-padded and cut to the declared size.
CartRom(i) ==
  IF i < ROMSZ
    THEN (IF i < Len(SETUP_ROM) THEN SETUP_ROM[i + 1] ELSE 255)
    ELSE 255

\* Raw (NoMbc): ROM reads are direct.  cart.rom holds the cells of the ROM
\* buffer that differ from the image it was built from.
RawRomRead(cart, idx) ==
  IF idx \in DOMAIN cart.rom THEN cart.rom[idx] ELSE CartRom(idx)

\* Unmapped: a Null device filled with 0xff; read yields the fill value.
UnmappedRead(fill, idx) == fill

\* An Unmapped that keeps the byte written.
UnmappedWrite_stores(fill, idx, value) == value

\* Unmapped: write only logs.
UnmappedWrite(fill, idx, value) == fill

\* A ROM that takes writes.
RawRomWrite_stores(cart, idx, value) ==
  [cart EXCEPT !.rom = RamWrite(@, idx, value)]

\* Raw (NoMbc): the ROM is wrapped ReadOnly, writes leave it alone.
RawRomWrite(cart, idx, value) == cart

\* Cartridge::mbc, Kind::NoMbc: [null, ram][has_ram].
RawRamRead(cart, idx) ==
  IF cart.ram THEN RamRead(cart.eram, idx) ELSE UnmappedRead(255, idx)

\* A cartridge whose external RAM takes writes whether or not it has RAM.
RawRamWrite_always(cart, idx, value) ==
  [cart EXCEPT !.eram = RamWrite(@, idx, value)]

RawRamWrite(cart, idx, value) ==
  IF cart.ram THEN [cart EXCEPT !.eram = RamWrite(@, idx, value)] ELSE cart

(***************************************************************************)
(* Cartridge construction (hw/cart/mod.rs).  A ROM image is described by   *)
(* its length, by the bytes it holds and by what its header declares; a    *)
(* ROM buffer is the bytes copied from the image followed by a fill.       *)
(***************************************************************************)
\* header::Kind: the kinds a header can declare.
Kinds == {"NoMbc", "Mbc1", "Mbc2", "Mbc3", "Mbc5"}

\* Header::romsz: 32 KiB << code; the arms of `match romsz`.
RomSizes == {32768 * (2 ^ code) : code \in 0 .. 8}

\* Header::ramsz; the arms of `match ramsz`.
RamSizes == {0, 8192, 32768, 131072, 65536}

\* The header lies at 0x0100-0x014f of the image.
HEADER_END == 336

\* rom[i] of an image.
ImageByte(img, i) == (img.seed + 7 * i + (i \div 256)) % 256

\* Header::try_from(rom)
Header_try_from(img) ==
  [ ok     |-> img.parses /\ img.len >= HEADER_END,
    header |-> [cart |-> img.cart, ram |-> img.ram,
                romsz |-> img.romsz, ramsz |-> img.ramsz] ]

\* Header::check(rom)
Header_check(img) == img.checks /\ img.len >= HEADER_END

\* Header::blank
Header_blank == [cart |-> "NoMbc", ram |-> FALSE, romsz |-> 32768, ramsz |-> 0]

NoBuf == [len |-> 0, copied |-> 0, fill |-> 0, seed |-> 0]

NoHeader == [cart |-> "NoMbc", ram |-> FALSE, romsz |-> 0, ramsz |-> 0]

\* The outcomes of a constructor: Ok(cartridge), Err(error) or a panic.
Made(header, rom, eram) ==
  [tag |-> "Ok", err |-> "none", kind |-> header.cart, header |-> header,
   rom |-> rom, eram |-> eram]

Failed(err, kind) ==
  [tag |-> "Err", err |-> err, kind |-> kind, header |-> NoHeader,
   rom |-> NoBuf, eram |-> FALSE]

Panicked ==
  [tag |-> "Panic", err |-> "none", kind |-> "NoMbc", header |-> NoHeader,
   rom |-> NoBuf, eram |-> FALSE]

\* A ROM buffer that pads with 0x00.
Rom_prepare_zero_fill(img, romsz) ==
  [len |-> romsz, copied |-> Min({img.len, romsz}), fill |-> 0, seed |-> img.seed]

\* Cartridge::mbc, "Prepare ROM":
\* rom.iter().copied().chain(iter::repeat(0xff)).take(romsz)
Rom_prepare(img, romsz) ==
  [len |-> romsz, copied |-> Min({img.len, romsz}), fill |-> 255, seed |-> img.seed]

\* Byte i of a ROM buffer.
Rom_byte(rom, i) ==
  IF i < rom.copied THEN ImageByte(rom, i) ELSE rom.fill

\* Box::<[_; N]>::try_from(rom): the buffer must hold exactly N bytes.
Box_try_from(rom, n) == rom.len = n

\* A Cartridge::mbc that panics on the kinds it does not implement.
Cartridge_mbc_panics(header, img) ==
  IF header.romsz \notin RomSizes \/ header.ramsz \notin RamSizes
    THEN Panicked
  ELSE IF ~Box_try_from(Rom_prepare(img, header.romsz), header.romsz)
    THEN Failed("Mismatch", header.cart)
  ELSE IF header.cart \in {"NoMbc", "Mbc1", "Mbc5"}
    THEN Made(header, Rom_prepare(img, header.romsz),
              header.ram /\ header.ramsz > 0)
  ELSE Panicked

\* Cartridge::mbc
Cartridge_mbc(header, img) ==
  IF header.romsz \notin RomSizes
    THEN Panicked
  ELSE IF ~Box_try_from(Rom_prepare(img, header.romsz), header.romsz)
    THEN Failed("Mismatch", header.cart)
  ELSE IF header.ramsz \notin RamSizes
    THEN Panicked
  ELSE IF header.cart \in {"NoMbc", "Mbc1", "Mbc5"}
    THEN Made(header, Rom_prepare(img, header.romsz),
              header.ram /\ header.ramsz > 0)
  ELSE Failed("Unimplemented", header.cart)

\* Cartridge::new
Cartridge_new(img) ==
  IF Header_try_from(img).ok
    THEN Cartridge_mbc(Header_try_from(img).header, img)
    ELSE Failed("Header", "NoMbc")

\* Cartridge::checked
Cartridge_checked(img) ==
  IF Header_check(img) /\ Header_try_from(img).ok
    THEN Cartridge_mbc(Header_try_from(img).header, img)
    ELSE Failed("Header", "NoMbc")

\* Cartridge::unchecked: .ok().unwrap() panics on an Err.
Cartridge_unchecked(img) ==
  IF Cartridge_mbc(IF Header_try_from(img).ok
                     THEN Header_try_from(img).header
                     ELSE Header_blank, img).tag = "Ok"
    THEN Cartridge_mbc(IF Header_try_from(img).ok
                         THEN Header_try_from(img).header
                         ELSE Header_blank, img)
    ELSE Panicked

\* Cartridge::rom().read(i)
Cartridge_rom_read(made, i) == Rom_byte(made.rom, i)

NoImage ==
  [len |-> 0, seed |-> 0, parses |-> FALSE, checks |-> FALSE,
   cart |-> "NoMbc", ram |-> FALSE, romsz |-> 32768, ramsz |-> 0]

\* No cartridge has been constructed.
NoCtor == [img |-> NoImage, fn |-> "none", out |-> Panicked]

(***************************************************************************)
(* OAM DMA (hw/ppu/dma.rs).  State::Off, State::Req(src) and               *)
(* State::On { src, idx }; the fields a variant lacks are kept at zero.    *)
(***************************************************************************)
OAM == 160

DmaDefault == [page |-> 0, state |-> "Off", src |-> 0, idx |-> 0]

Dma_load(dma) == dma.page

\* A store that requests a transfer without latching the source page.
Dma_store_no_latch(dma, value) ==
  IF dma.state = "Off"
    THEN [dma EXCEPT !.state = "Req", !.page = value]
    ELSE [dma EXCEPT !.page = value]

\* A store that latches the source page again while the engine is busy.
Dma_store_relatch(dma, value) ==
  IF dma.state = "Off"
    THEN [dma EXCEPT !.state = "Req", !.src = value, !.page = value]
    ELSE [dma EXCEPT !.src = value, !.page = value]

\* Dma::store: a request is taken only in state Off; the stored byte is
\* always updated.
Dma_store(dma, value) ==
  IF dma.state = "Off"
    THEN [dma EXCEPT !.state = "Req", !.src = value, !.page = value]
    ELSE [dma EXCEPT !.page = value]

\* An engine that reports itself enabled in every state.
Dma_enabled_always(dma) == dma.state \in {"Off", "Req", "On"}

\* Dma::enabled: every state but Off
Dma_enabled(dma) == dma.state # "Off"

(***************************************************************************)
(* The boot ROM and its disable register (model/dmg/boot.rs).              *)
(***************************************************************************)
\* boot::Rom answers on the bus while it is enabled.
BootRom_contains(boot, idx) == ~boot.off /\ idx < Len(BOOT)

\* boot::RomDisable: the register keeps the byte written; a non-zero byte
\* unmaps the boot ROM for good.
RomDisable_write(boot, value) ==
  [ctl |-> value, off |-> boot.off \/ value # 0]

(***************************************************************************)
(* The memory map.  Each entry is a device mapped at a base address; a     *)
(* bus resolves an index to the first mapped device that contains it.      *)
(***************************************************************************)
\* An I/O map with the boot-disable register one byte too far.
IoMap_boot_shifted ==
  << [dev |-> "con",     base |-> 0,  len |-> 1],
     [dev |-> "com",     base |-> 1,  len |-> 2],
     [dev |-> "timer",   base |-> 4,  len |-> 4],
     [dev |-> "iflag",   base |-> 15, len |-> 1],
     [dev |-> "sound",   base |-> 16, len |-> 23],
     [dev |-> "wave",    base |-> 48, len |-> 16],
     [dev |-> "lcd",     base |-> 64, len |-> 12],
     [dev |-> "bootctl", base |-> 81, len |-> 1] >>

\* InOut::memmap
IoMap ==
  << [dev |-> "con",     base |-> 0,  len |-> 1],
     [dev |-> "com",     base |-> 1,  len |-> 2],
     [dev |-> "timer",   base |-> 4,  len |-> 4],
     [dev |-> "iflag",   base |-> 15, len |-> 1],
     [dev |-> "sound",   base |-> 16, len |-> 23],
     [dev |-> "wave",    base |-> 48, len |-> 16],
     [dev |-> "lcd",     base |-> 64, len |-> 12],
     [dev |-> "bootctl", base |-> 80, len |-> 1] >>

\* A map whose echo covers the whole of work RAM.
MemMap_echo_whole ==
  << [dev |-> "boot",     base |-> 0,     len |-> 256],
     [dev |-> "rom",      base |-> 0,     len |-> 32768],
     [dev |-> "vram",     base |-> 32768, len |-> 8192],
     [dev |-> "eram",     base |-> 40960, len |-> 8192],
     [dev |-> "wram",     base |-> 49152, len |-> 8192],
     [dev |-> "echo",     base |-> 57344, len |-> 8192],
     [dev |-> "oam",      base |-> 65024, len |-> 160],
     [dev |-> "mmio",     base |-> 65280, len |-> 128],
     [dev |-> "hram",     base |-> 65408, len |-> 127],
     [dev |-> "ie",       base |-> 65535, len |-> 1],
     [dev |-> "unmapped", base |-> 0,     len |-> 65536] >>

\* A map with the cartridge mapped ahead of the boot ROM.
MemMap_rom_first ==
  << [dev |-> "rom",      base |-> 0,     len |-> 32768],
     [dev |-> "boot",     base |-> 0,     len |-> 256],
     [dev |-> "vram",     base |-> 32768, len |-> 8192],
     [dev |-> "eram",     base |-> 40960, len |-> 8192],
     [dev |-> "wram",     base |-> 49152, len |-> 8192],
     [dev |-> "echo",     base |-> 57344, len |-> 7680],
     [dev |-> "oam",      base |-> 65024, len |-> 160],
     [dev |-> "mmio",     base |-> 65280, len |-> 128],
     [dev |-> "hram",     base |-> 65408, len |-> 127],
     [dev |-> "ie",       base |-> 65535, len |-> 1],
     [dev |-> "unmapped", base |-> 0,     len |-> 65536] >>

\* GameBoy::memmap
MemMap ==
  << [dev |-> "boot",     base |-> 0,     len |-> 256],
     [dev |-> "rom",      base |-> 0,     len |-> 32768],
     [dev |-> "vram",     base |-> 32768, len |-> 8192],
     [dev |-> "eram",     base |-> 40960, len |-> 8192],
     [dev |-> "wram",     base |-> 49152, len |-> 8192],
     [dev |-> "echo",     base |-> 57344, len |-> 7680],
     [dev |-> "oam",      base |-> 65024, len |-> 160],
     [dev |-> "mmio",     base |-> 65280, len |-> 128],
     [dev |-> "hram",     base |-> 65408, len |-> 127],
     [dev |-> "ie",       base |-> 65535, len |-> 1],
     [dev |-> "unmapped", base |-> 0,     len |-> 65536] >>

InRange(e, index) == e.base <= index /\ index - e.base < e.len

\* A boot ROM that answers on the bus after it has been disabled.
Dev_contains_boot_stays(m, dev, idx) ==
  CASE dev = "boot" -> idx < Len(BOOT)
    [] dev = "mmio" -> \E i \in DOMAIN IoMap : InRange(IoMap[i], idx)
    [] OTHER -> TRUE

\* Device::contains of a mapped device, beyond its length.
Dev_contains(m, dev, idx) ==
  CASE dev = "boot" -> BootRom_contains(m.boot, idx)
    [] dev = "mmio" -> \E i \in DOMAIN IoMap : InRange(IoMap[i], idx)
    [] OTHER -> TRUE

\* Bus::at: the device an index resolves to and the index inside it.
Bus_at(map, m, index) ==
  LET hits == {i \in DOMAIN map :
                 /\ InRange(map[i], index)
                 /\ Dev_contains(m, map[i].dev, index - map[i].base)}
      e == map[Min(hits)]
  IN  [dev |-> e.dev, idx |-> index - e.base]

\* The devices of the I/O bus.
Io_read(m, dev, idx) ==
  CASE dev = "con"     -> BitOr(207, m.con)
    [] dev = "com"     -> RamRead(m.com, idx)
    [] dev = "timer"   -> RamRead(m.timer, idx)
    [] dev = "iflag"   -> m.iflag
    [] dev = "sound"   -> RamRead(m.sound, idx)
    [] dev = "wave"    -> RamRead(m.wave, idx)
    [] dev = "lcd"     -> IF idx = 6 THEN Dma_load(m.dma) ELSE RamRead(m.lcd, idx)
    [] dev = "bootctl" -> m.boot.ctl

Io_write(m, dev, idx, value) ==
  CASE dev = "con"     -> [m EXCEPT !.con = BitAnd(value, 48)]
    [] dev = "com"     -> [m EXCEPT !.com = RamWrite(@, idx, value)]
    [] dev = "timer"   -> [m EXCEPT !.timer = RamWrite(@, idx, value)]
    [] dev = "iflag"   -> [m EXCEPT !.iflag = value]
    [] dev = "sound"   -> [m EXCEPT !.sound = RamWrite(@, idx, value)]
    [] dev = "wave"    -> [m EXCEPT !.wave = RamWrite(@, idx, value)]
    [] dev = "lcd"     -> IF idx = 6
                            THEN [m EXCEPT !.dma = Dma_store(@, value)]
                            ELSE [m EXCEPT !.lcd = RamWrite(@, idx, value)]
    [] dev = "bootctl" -> [m EXCEPT !.boot = RomDisable_write(@, value)]

\* Device::read of a device mapped in the MMU.
Dev_read(m, dev, idx) ==
  CASE dev = "boot"     -> BOOT[idx + 1]
    [] dev = "rom"      -> RawRomRead(m.cart, idx)
    [] dev = "vram"     -> RamRead(m.vram, idx)
    [] dev = "eram"     -> RawRamRead(m.cart, idx)
    [] dev = "wram"     -> RamRead(m.wram, idx)
    [] dev = "echo"     -> RamRead(m.wram, idx)
    [] dev = "oam"      -> RamRead(m.oam, idx)
    [] dev = "mmio"     -> LET t == Bus_at(IoMap, m, idx)
                           IN  Io_read(m, t.dev, t.idx)
    [] dev = "hram"     -> RamRead(m.hram, idx)
    [] dev = "ie"       -> m.ie
    [] dev = "unmapped" -> UnmappedRead(m.unmapped, idx)

\* Devices whose boot ROM drops a write.
Dev_write_boot_drops(m, dev, idx, value) ==
  CASE dev = "boot"     -> m
    [] dev = "rom"      -> [m EXCEPT !.cart = RawRomWrite(@, idx, value)]
    [] dev = "vram"     -> [m EXCEPT !.vram = RamWrite(@, idx, value)]
    [] dev = "eram"     -> [m EXCEPT !.cart = RawRamWrite(@, idx, value)]
    [] dev = "wram"     -> [m EXCEPT !.wram = RamWrite(@, idx, value)]
    [] dev = "echo"     -> [m EXCEPT !.wram = RamWrite(@, idx, value)]
    [] dev = "oam"      -> [m EXCEPT !.oam = RamWrite(@, idx, value)]
    [] dev = "mmio"     -> LET t == Bus_at(IoMap, m, idx)
                           IN  Io_write(m, t.dev, t.idx, value)
    [] dev = "hram"     -> [m EXCEPT !.hram = RamWrite(@, idx, value)]
    [] dev = "ie"       -> [m EXCEPT !.ie = value]
    [] dev = "unmapped" -> [m EXCEPT !.unmapped = UnmappedWrite(@, idx, value)]

\* Device::write of a device mapped in the MMU.  A write to the boot ROM
\* (a remus Rom) panics.
Dev_write(m, dev, idx, value) ==
  CASE dev = "boot"     -> [m EXCEPT !.panic = TRUE]
    [] dev = "rom"      -> [m EXCEPT !.cart = RawRomWrite(@, idx, value)]
    [] dev = "vram"     -> [m EXCEPT !.vram = RamWrite(@, idx, value)]
    [] dev = "eram"     -> [m EXCEPT !.cart = RawRamWrite(@, idx, value)]
    [] dev = "wram"     -> [m EXCEPT !.wram = RamWrite(@, idx, value)]
    [] dev = "echo"     -> [m EXCEPT !.wram = RamWrite(@, idx, value)]
    [] dev = "oam"      -> [m EXCEPT !.oam = RamWrite(@, idx, value)]
    [] dev = "mmio"     -> LET t == Bus_at(IoMap, m, idx)
                           IN  Io_write(m, t.dev, t.idx, value)
    [] dev = "hram"     -> [m EXCEPT !.hram = RamWrite(@, idx, value)]
    [] dev = "ie"       -> [m EXCEPT !.ie = value]
    [] dev = "unmapped" -> [m EXCEPT !.unmapped = UnmappedWrite(@, idx, value)]

\* mmu.read(addr)
BusRead(m, addr) ==
  LET t == Bus_at(MemMap, m, addr) IN Dev_read(m, t.dev, t.idx)

\* mmu.write(addr, value)
BusWrite(m, addr, value) ==
  LET t == Bus_at(MemMap, m, addr) IN Dev_write(m, t.dev, t.idx, value)

\* A cycle that tests the incremented index with <= instead of <.
Dma_cycle_one_more(m) ==
  LET d == m.dma IN
  CASE d.state = "Off" -> [m EXCEPT !.panic = TRUE]
    [] d.state = "Req" -> [m EXCEPT !.dma = [d EXCEPT !.state = "On", !.idx = 0]]
    [] d.state = "On"  ->
         LET addr == d.src * 256 + d.idx
             data == BusRead(m, addr)
             idx  == IF d.idx < 255 THEN d.idx + 1 ELSE 255
         IN  [m EXCEPT
                !.oam = RamWrite(@, d.idx, data),
                !.dma = IF idx <= OAM
                          THEN [d EXCEPT !.idx = idx]
                          ELSE [d EXCEPT !.state = "Off", !.src = 0, !.idx = 0]]

\* Dma::cycle.  Off panics; Req starts the transfer at index 0; On copies
\* bus[src:idx] to oam[idx] and moves on, back to Off after byte OAM - 1.
Dma_cycle(m) ==
  LET d == m.dma IN
  CASE d.state = "Off" -> [m EXCEPT !.panic = TRUE]
    [] d.state = "Req" -> [m EXCEPT !.dma = [d EXCEPT !.state = "On", !.idx = 0]]
    [] d.state = "On"  ->
         LET addr == d.src * 256 + d.idx
             data == BusRead(m, addr)
             idx  == IF d.idx < 255 THEN d.idx + 1 ELSE 255
         IN  [m EXCEPT
                !.oam = RamWrite(@, d.idx, data),
                !.dma = IF idx < OAM
                          THEN [d EXCEPT !.idx = idx]
                          ELSE [d EXCEPT !.state = "Off", !.src = 0, !.idx = 0]]

\* The CPU is linked to the MMU itself (GameBoy::reset, cpu.set_bus).
Cpu_read(m, addr) == BusRead(m, addr)

\* The devices after GameBoy::new: boot ROM enabled, memories blank.
NewMmu(has_ram) ==
  [ boot     |-> [ctl |-> 0, off |-> FALSE],
    cart     |-> [ram |-> has_ram, rom |-> Blank, eram |-> Blank],
    vram     |-> Blank,
    wram     |-> Blank,
    oam      |-> Blank,
    hram     |-> Blank,
    con      |-> 0,
    com      |-> Blank,
    timer    |-> Blank,
    iflag    |-> 0,
    sound    |-> Blank,
    wave     |-> Blank,
    lcd      |-> Blank,
    dma      |-> DmaDefault,
    ie       |-> 0,
    unmapped |-> 255,
    req      |-> 0,
    panic    |-> FALSE ]

(***************************************************************************)
(* The bus under direct reads and writes (the tests of model/dmg/mod.rs).  *)
(***************************************************************************)
MaxWrites == 2

\* Addresses written: both ends of every mapped region and of every gap.
WriteAddrs ==
  { 0, 256, 32767, 32768, 40959, 40960, 49151, 49152, 57343, 57344, 65023,
    65024, 65183, 65184, 65279, 65283, 65319, 65327, 65348, 65350, 65360,
    65408, 65534, 65535 }

WriteVals == {0, 1, 170}

\* Ppu::default: the dot clock at zero, in Mode::default.
\* lx is the column of the pipeline under way and wrote lists the
\* framebuffer writes of the cycle under way.
PpuDefault ==
  [dot |-> 0, mode |-> "Scan", winln |-> 0, lx |-> 0, wrote |-> << >>]

\* Operation::default: fetch the next opcode.
OperationDefault == [k |-> "Fetch", s |-> "Fetch", x |-> 0, y |-> 0]

\* Cpu::default: a zeroed register file, about to fetch.
CpuDefault ==
  [ a |-> 0, f |-> 0, b |-> 0, c |-> 0, d |-> 0, e |-> 0, h |-> 0, l |-> 0,
    sp |-> 0, pc |-> 0,
    code |-> 0, op |-> OperationDefault,
    ret |-> "None", err |-> 0,
    txn |-> << >>, last |-> OperationDefault, insns |-> 0,
    at |-> 0, steps |-> 0, halted |-> FALSE, ime |-> FALSE ]

NoEvent == [kind |-> "new", addr |-> 0, val |-> 0]

\* GameBoy::new: the cycle count, and the timer's internal counter and
\* pending reload.  ran lists the parts the last cycle has run.
GbDefault == [cycle |-> 0, counter |-> 0, reload |-> FALSE, ran |-> << >>]

NoHist ==
  [ page |-> 0, since |-> 0, clean |-> FALSE, pat |-> 0, srcw |-> 0,
    lyw |-> FALSE, vreq |-> 0, stalls |-> 0, lines |-> 0 ]

InitBus ==
  /\ \E has_ram \in BOOLEAN : mmu = NewMmu(has_ram)
  /\ ev = NoEvent
  /\ gb = GbDefault
  /\ nops = 0
  /\ hist = NoHist
  /\ ppu = PpuDefault
  /\ cpu = CpuDefault
  /\ debug_assertions = TRUE
  /\ ctor = NoCtor

\* mmu.borrow_mut().write(addr, value)
Write(addr, value) ==
  /\ ~mmu.panic
  /\ nops < MaxWrites
  /\ mmu' = BusWrite(mmu, addr, value)
  /\ ev' = [kind |-> "write", addr |-> addr, val |-> value]
  /\ nops' = nops + 1
  /\ UNCHANGED <<hist, ppu, cpu, gb, debug_assertions, ctor>>

NextBus == \E addr \in WriteAddrs, value \in WriteVals : Write(addr, value)

SpecBus == InitBus /\ [][NextBus]_vars

(***************************************************************************)
(* Claims about the bus.                                                   *)
(***************************************************************************)
\* Addresses inside the boot window (byte 14 is 0xff in both ROMs).
BootWindow == {0, 1, 2, 14, 127, 128, 254, 255}

\* Cartridge ROM addresses above the boot window.
CartSample == {256, 257, 327, 335, 336, 8448, 16384, 32767}

BootVisible(m) == \A a \in BootWindow : BusRead(m, a) = BOOT[a + 1]

BootHidden(m) == \A a \in BootWindow : BusRead(m, a) = CartRom(a)

WroteTo(addr) == ev.kind = "write" /\ ev.addr = addr

\* C3: after construction every read at 0x0000-0x00ff returns the boot ROM
\* byte (0x31 at 0x0000) and keeps doing so while the boot ROM is enabled;
\* after a write of 0x01 to 0xff50 every read there returns the cartridge
\* byte; reads at 0x0100 and above return cartridge bytes in both cases.
C3_BootHandoff ==
  /\ ev.kind = "new" => BootVisible(mmu) /\ BusRead(mmu, 0) = 49
  /\ ~mmu.boot.off => BootVisible(mmu)
  /\ WroteTo(65360) /\ ev.val = 1 => BootHidden(mmu)
  /\ \A a \in CartSample : BusRead(mmu, a) = CartRom(a)

C3_Witness ==
  /\ WroteTo(65360) /\ ev.val = 1
  /\ BusRead(mmu, 0) = 195
  /\ BusRead(mmu, 256) = 0

\* C4: the boot-disable register is a one-way latch: a non-zero write to
\* 0xff50 hides the boot ROM, and once it is hidden no bus write (a write
\* of 0x00 to 0xff50 included) makes it readable at 0x0000-0x00ff again.
C4_BootLatch ==
  [][ /\ BootHidden(mmu) => BootHidden(mmu')
      /\ (ev'.kind = "write" /\ ev'.addr = 65360 /\ ev'.val # 0)
           => BootHidden(mmu') ]_vars

C4_Witness ==
  /\ WroteTo(65360) /\ ev.val = 0
  /\ mmu.boot.off
  /\ BootHidden(mmu)

InVram(a) == 32768 <= a /\ a <= 40959
InEram(a) == 40960 <= a /\ a <= 49151
InWram(a) == 49152 <= a /\ a <= 57343
InOam(a)  == 65024 <= a /\ a <= 65183
InHram(a) == 65408 <= a /\ a <= 65534
InCartRom(a) == 256 <= a /\ a <= 32767

\* C5: bus.write(a, v) followed by bus.read(a) returns v when a lies in
\* VRAM, in the ERAM of a cartridge with RAM, in WRAM, OAM or HRAM, and
\* returns the ROM byte, unchanged, when a lies in 0x0100-0x7fff.
C5_WriteRead ==
  ev.kind = "write" =>
    /\ ( \/ InVram(ev.addr)
         \/ InEram(ev.addr) /\ mmu.cart.ram
         \/ InWram(ev.addr)
         \/ InOam(ev.addr)
         \/ InHram(ev.addr) ) => BusRead(mmu, ev.addr) = ev.val
    /\ InCartRom(ev.addr) => BusRead(mmu, ev.addr) = CartRom(ev.addr)

C5_Witness ==
  /\ ev.kind = "write" /\ ev.val = 170
  /\ InCartRom(ev.addr)
  /\ \E a \in WriteAddrs : InEram(a) /\ mmu.cart.ram /\ BusRead(mmu, a) = 1

\* Addresses that no mapped device covers.
Gaps == {65184, 65189, 65279, 65283, 65319, 65327}

\* C6: every address that no mapped device covers (0xfea0-0xfeff, 0xff03,
\* 0xff27-0xff2f) reads 0xff after any sequence of writes, and the Unmapped
\* device returns 0xff for every index after any sequence of writes.
C6_Unmapped ==
  /\ \A a \in Gaps : BusRead(mmu, a) = 255
  /\ \A idx \in Gaps \cup {0, 255} : UnmappedRead(mmu.unmapped, idx) = 255

C6_Witness ==
  /\ ev.kind = "write" /\ ev.val = 170 /\ ev.addr \in Gaps
  /\ mmu.boot.off

(***************************************************************************)
(* The DMA engine: requests through 0xff46, one Dma::cycle per machine     *)
(* cycle while the engine is enabled.                                      *)
(***************************************************************************)
MaxDmaWrites == 2
MaxSrcWrites == 1

\* The patterns a run may start with in WRAM (pattern k) and VRAM (k + 1).
PatternIds == {1, 2}

\* Source pages requested: VRAM and WRAM.
Pages == {128, 192}

\* Transfer indices at which the CPU writes during a transfer.
WriteAt == {1, 159}

\* The source address the CPU overwrites during a transfer, and the bytes
\* it writes there.
SrcAddr == 49152 + 158
SrcBytes == {85}

\* The known patterns: bytes in 1 .. 254, none of them 0x00 or 0xff.
Pattern(k, i) == (((i * (k + 2)) + k) % 254) + 1

PatternRam(k) == [i \in 0 .. OAM - 1 |-> Pattern(k, i)]

InitDma ==
  /\ \E k \in PatternIds :
       /\ mmu = [NewMmu(TRUE) EXCEPT !.wram = PatternRam(k),
                                     !.vram = PatternRam(k + 1)]
       /\ hist = [NoHist EXCEPT !.pat = k]
  /\ ev = NoEvent
  /\ gb = GbDefault
  /\ nops = 0
  /\ ppu = PpuDefault
  /\ cpu = CpuDefault
  /\ debug_assertions = TRUE
  /\ ctor = NoCtor

\* The CPU may write at any time; the model samples the moments.
CanWriteNow ==
  \/ mmu.dma.state \in {"Off", "Req"}
  \/ mmu.dma.state = "On" /\ mmu.dma.idx \in WriteAt

\* mmu.write(0xff46, page)
DmaWrite(page) ==
  /\ ~mmu.panic
  /\ nops < MaxDmaWrites
  /\ CanWriteNow
  /\ mmu' = BusWrite(mmu, 65350, page)
  /\ ev' = [kind |-> "write", addr |-> 65350, val |-> page]
  /\ nops' = nops + 1
  /\ hist' = IF mmu.dma.state = "Off"
               THEN [hist EXCEPT !.page = page, !.since = 0, !.clean = TRUE]
               ELSE [hist EXCEPT !.clean = FALSE]
  /\ UNCHANGED <<ppu, cpu, gb, debug_assertions, ctor>>

\* mmu.write(SrcAddr, value) while a transfer is under way
SrcWrite(value) ==
  /\ ~mmu.panic
  /\ hist.srcw < MaxSrcWrites
  /\ mmu.dma.state = "On" /\ mmu.dma.idx \in WriteAt
  /\ mmu' = BusWrite(mmu, SrcAddr, value)
  /\ ev' = [kind |-> "write", addr |-> SrcAddr, val |-> value]
  /\ hist' = [hist EXCEPT !.clean = FALSE, !.srcw = @ + 1]
  /\ UNCHANGED <<nops, ppu, cpu, gb, debug_assertions, ctor>>

\* if dma.enabled() { dma.cycle() }
DmaCycle ==
  /\ ~mmu.panic
  /\ Dma_enabled(mmu.dma)
  /\ mmu' = Dma_cycle(mmu)
  /\ ev' = [kind |-> "cycle", addr |-> 0, val |-> 0]
  /\ hist' = [hist EXCEPT !.since = @ + 1]
  /\ UNCHANGED <<nops, ppu, cpu, gb, debug_assertions, ctor>>

NextDma ==
  \/ \E page \in Pages : DmaWrite(page)
  \/ \E value \in SrcBytes : SrcWrite(value)
  \/ DmaCycle

SpecDma == InitDma /\ [][NextDma]_vars

\* The host loop keeps cycling the machine.
SpecDmaLive == SpecDma /\ WF_vars(DmaCycle)

(***************************************************************************)
(* Claims about the DMA engine.                                            *)
(***************************************************************************)
OamIs(m, k) == \A i \in 0 .. OAM - 1 : RamRead(m.oam, i) = Pattern(k, i)

\* The source 0xc000-0xc09f holds the pattern.
SrcIs(m, k) == \A i \in 0 .. OAM - 1 : BusRead(m, 49152 + i) = Pattern(k, i)

\* 0xc0 was written to 0xff46 with the engine Off, and nothing has been
\* written to the source or to 0xff46 since.
Requested192 == hist.page = 192 /\ hist.clean /\ SrcIs(mmu, hist.pat)

\* C7 (as stated): a write of any byte v to 0xff46 moves the engine to
\* Requested(v) from every state, a transfer under way included.
C7_WriteRequests ==
  WroteTo(65350) => mmu.dma.state = "Req" /\ mmu.dma.src = ev.val

\* C8: a cycle in the Active state copies exactly one byte,
\* oam[idx] := bus.read((page << 8) | idx), leaves every other OAM byte
\* alone and increments idx; a cycle in Requested enters Active at index 0;
\* idx stays below 160 while Active; the cycle that copies byte 159 returns
\* the engine to Off; a requested transfer always terminates.
C8_ActiveCycle ==
  ev'.kind = "cycle" /\ mmu.dma.state = "On" =>
    LET d == mmu.dma IN
    /\ \A i \in 0 .. OAM - 1 :
         RamRead(mmu'.oam, i) =
           IF i = d.idx THEN BusRead(mmu, d.src * 256 + d.idx)
                        ELSE RamRead(mmu.oam, i)
    /\ DOMAIN mmu'.oam \subseteq 0 .. OAM - 1
    /\ d.idx < 159 => /\ mmu'.dma.state = "On"
                      /\ mmu'.dma.idx = d.idx + 1
                      /\ mmu'.dma.src = d.src
    /\ d.idx = 159 => mmu'.dma.state = "Off"

C8_StartCycle ==
  ev'.kind = "cycle" /\ mmu.dma.state = "Req" =>
    /\ mmu'.dma.state = "On"
    /\ mmu'.dma.idx = 0
    /\ mmu'.dma.src = mmu.dma.src
    /\ mmu'.oam = mmu.oam

C9_After160 ==
  Requested192 /\ hist.since = 160 => OamIs(mmu, hist.pat)

\* C9 (amended): the first cycle after the write only starts the transfer.
\* After 160 cycles bytes 0 .. 158 are copied and the engine is still
\* Active at index 159; after 161 cycles OAM holds the whole pattern and
\* the engine is Off.
C9_After161 ==
  /\ Requested192 /\ hist.since = 161 =>
       OamIs(mmu, hist.pat) /\ mmu.dma.state = "Off"
  /\ Requested192 /\ hist.since = 160 =>
       /\ \A i \in 0 .. 158 : RamRead(mmu.oam, i) = Pattern(hist.pat, i)
       /\ mmu.dma.state = "On" /\ mmu.dma.idx = 159

C9_Witness ==
  /\ Requested192 /\ hist.since = 161
  /\ nops = 1
  /\ OamIs(mmu, hist.pat)

\* Addresses outside HRAM that the CPU reads.
CpuReads == {256, 32768, 49152}

\* C10 (as stated): while the DMA state is Active every CPU read outside
\* HRAM (0xff80-0xfffe) returns 0xff.
C10_BusLocked ==
  mmu.dma.state = "On" =>
    \A a \in CpuReads : Cpu_read(mmu, a) = 255

(***************************************************************************)
(* The PPU (hw/ppu).  The dot clock, the mode and the window line counter  *)
(* are in ppu; LY is register 4 of the LCD bank (0xff44), LCDC register 0. *)
(* A mode's exec runs once per dot while the LCD is enabled.               *)
(***************************************************************************)
\* HBlank::DOTS
DOTS == 456

\* SCREEN.height
SCREEN_height == 144

\* LCD.wd
LCD_wd == 160

\* Dots of a line spent in Scan.
SCAN_DOTS == 80

\* Lines of a frame, VBlank included.
LINES == 154

Ppu_ly(m) == RamRead(m.lcd, 4)

Ppu_lcdc(m) == RamRead(m.lcd, 0)

\* Ppu::enabled: LCDC.7
Ppu_enabled(m) == Ppu_lcdc(m) >= 128

\* Pic::req: raise the interrupt's bit in IF.  m.req collects the bits
\* requested during the tick under way.
Pic_req(m, bit) ==
  [m EXCEPT !.iflag = BitOr(@, bit), !.req = BitOr(@, bit)]

\* Scan::exec: OAM scan for the first 80 dots of the line, then a new Draw.
Scan_exec(s) ==
  LET dot == s.ppu.dot + 1 IN
  IF dot < SCAN_DOTS
    THEN [s EXCEPT !.ppu.dot = dot]
    ELSE [s EXCEPT !.ppu.dot = dot, !.ppu.mode = "Draw", !.ppu.lx = 0]

\* A pixel the pipeline shifts out: its colour index and palette tag.
NoPixel == [some |-> FALSE, col |-> 0, pal |-> "BgWin"]

Some(col, pal) == [some |-> TRUE, col |-> col, pal |-> pal]

\* A colouring that uses BGP for every pixel.
Ppu_color_bgp(m, pixel) ==
  LET pal == RamRead(m.lcd, 7)
  IN  CASE pixel.col = 0 -> BitAnd(3, pal)
        [] pixel.col = 1 -> BitAnd(12, pal) \div 4
        [] pixel.col = 2 -> BitAnd(48, pal) \div 16
        [] pixel.col = 3 -> BitAnd(192, pal) \div 64

\* Ppu::color: the palette register of the pixel's tag, masked at the
\* colour's field and shifted down.
Ppu_color(m, pixel) ==
  LET pal == CASE pixel.pal = "BgWin" -> RamRead(m.lcd, 7)
               [] pixel.pal = "Obp0"  -> RamRead(m.lcd, 8)
               [] pixel.pal = "Obp1"  -> RamRead(m.lcd, 9)
  IN  CASE pixel.col = 0 -> BitAnd(3, pal)
        [] pixel.col = 1 -> BitAnd(12, pal) \div 4
        [] pixel.col = 2 -> BitAnd(48, pal) \div 16
        [] pixel.col = 3 -> BitAnd(192, pal) \div 64

\* A Draw whose column advances whether or not a pixel came out.
Draw_exec_free_running(s, pixel, layer) ==
  LET ly   == Ppu_ly(s.mmu)
      lx   == s.ppu.lx
      pidx == ly * LCD_wd + lx
      oob  == pixel.some /\ pidx >= LCD_wd * SCREEN_height
      t    == IF pixel.some /\ ~oob
                THEN [s EXCEPT !.ppu.wrote =
                        Append(@, [idx |-> pidx, col |-> Ppu_color(s.mmu, pixel)])]
                ELSE s
      nx   == lx + 1
  IN  IF oob THEN [s EXCEPT !.mmu.panic = TRUE]
      ELSE IF nx < LCD_wd
        THEN [t EXCEPT !.ppu.lx = nx]
        ELSE [t EXCEPT !.ppu.lx = nx,
                       !.ppu.winln = IF layer = "Window" THEN @ + 1 ELSE @,
                       !.ppu.mode = "HBlank"]

\* Draw::exec (parts/ppu/exec/draw.rs).  pixel is what the pipeline shifts
\* out this cycle and layer the fetcher's layer; a pixel is written at
\* ly * LCD.wd + lx (an index outside the buffer panics), and the mode
\* changes once lx reaches LCD.wd.
Draw_exec(s, pixel, layer) ==
  LET ly   == Ppu_ly(s.mmu)
      lx   == s.ppu.lx
      pidx == ly * LCD_wd + lx
      oob  == pixel.some /\ pidx >= LCD_wd * SCREEN_height
      t    == IF pixel.some /\ ~oob
                THEN [s EXCEPT !.ppu.wrote =
                        Append(@, [idx |-> pidx, col |-> Ppu_color(s.mmu, pixel)])]
                ELSE s
      nx   == IF pixel.some THEN lx + 1 ELSE lx
  IN  IF oob THEN [s EXCEPT !.mmu.panic = TRUE]
      ELSE IF nx < LCD_wd
        THEN [t EXCEPT !.ppu.lx = nx]
        ELSE [t EXCEPT !.ppu.lx = nx,
                       !.ppu.winln = IF layer = "Window" THEN @ + 1 ELSE @,
                       !.ppu.mode = "HBlank"]

\* An HBlank that starts another line at LY = 144.
HBlank_exec_late(s, wrapped) ==
  LET dot == s.ppu.dot + 1 IN
  IF dot < DOTS
    THEN [s EXCEPT !.ppu.dot = dot]
    ELSE
      IF Ppu_ly(s.mmu) + 1 > 255 /\ ~wrapped
        THEN [s EXCEPT !.ppu.dot = dot, !.mmu.panic = TRUE]
        ELSE
          LET ly == U8(Ppu_ly(s.mmu) + 1)
              t  == [s EXCEPT !.mmu.lcd = RamWrite(@, 4, ly), !.ppu.dot = 0]
          IN  IF ly <= SCREEN_height
                THEN [t EXCEPT !.ppu.mode = "Scan"]
                ELSE [t EXCEPT !.ppu.winln = 0,
                               !.mmu = Pic_req(@, 1),
                               !.ppu.mode = "VBlank"]

\* HBlank::exec.  ly.load() + 1 overflows at 255: a panic where overflow is
\* checked and a wrapped sum where it is not.
HBlank_exec(s, wrapped) ==
  LET dot == s.ppu.dot + 1 IN
  IF dot < DOTS
    THEN [s EXCEPT !.ppu.dot = dot]
    ELSE
      IF Ppu_ly(s.mmu) + 1 > 255 /\ ~wrapped
        THEN [s EXCEPT !.ppu.dot = dot, !.mmu.panic = TRUE]
        ELSE
          LET ly == U8(Ppu_ly(s.mmu) + 1)
              t  == [s EXCEPT !.mmu.lcd = RamWrite(@, 4, ly), !.ppu.dot = 0]
          IN  IF ly < SCREEN_height
                THEN [t EXCEPT !.ppu.mode = "Scan"]
                ELSE [t EXCEPT !.ppu.winln = 0,
                               !.mmu = Pic_req(@, 1),
                               !.ppu.mode = "VBlank"]

\* VBlank::exec: ten more lines, then LY returns to 0 and Scan begins.
VBlank_exec(s, wrapped) ==
  LET dot == s.ppu.dot + 1 IN
  IF dot < DOTS
    THEN [s EXCEPT !.ppu.dot = dot]
    ELSE
      IF Ppu_ly(s.mmu) + 1 > 255 /\ ~wrapped
        THEN [s EXCEPT !.ppu.dot = dot, !.mmu.panic = TRUE]
        ELSE
          LET ly == U8(Ppu_ly(s.mmu) + 1) IN
          IF ly < LINES
            THEN [s EXCEPT !.mmu.lcd = RamWrite(@, 4, ly), !.ppu.dot = 0]
            ELSE [s EXCEPT !.mmu.lcd = RamWrite(@, 4, 0), !.ppu.dot = 0,
                           !.ppu.mode = "Scan"]

\* Ppu::cycle: run the current mode for one dot.  Scan, HBlank and VBlank
\* advance the dot clock themselves; Draw leaves it to the cycle.
Ppu_cycle(s, wrapped, pixel, layer) ==
  LET s0 == [s EXCEPT !.ppu.wrote = << >>] IN
  CASE s.ppu.mode = "Scan"   -> Scan_exec(s0)
    [] s.ppu.mode = "Draw"   ->
         LET t == Draw_exec(s0, pixel, layer)
         IN  [t EXCEPT !.ppu.dot = @ + 1]
    [] s.ppu.mode = "HBlank" -> HBlank_exec(s0, wrapped)
    [] s.ppu.mode = "VBlank" -> VBlank_exec(s0, wrapped)

MaxLcdWrites == 2

\* Registers the CPU writes: LCDC, LY and IF.
LcdWrites ==
  { [addr |-> 65344, val |-> 145],
    [addr |-> 65348, val |-> 143],
    [addr |-> 65348, val |-> 200],
    [addr |-> 65348, val |-> 255],
    [addr |-> 65295, val |-> 0] }

\* The CPU may write at any dot; the model samples the moments.
LcdWriteLines == {0, 143, 153}
LcdWriteDots == {0, 455}

InitPpu ==
  /\ mmu = NewMmu(TRUE)
  /\ ev = NoEvent
  /\ gb = GbDefault
  /\ nops = 0
  /\ hist = NoHist
  /\ ppu = PpuDefault
  /\ cpu = CpuDefault
  /\ debug_assertions \in BOOLEAN
  /\ ctor = NoCtor

\* mmu.write(addr, value), a CPU write to an LCD register or to IF
LcdWrite(w) ==
  /\ ~mmu.panic
  /\ nops < MaxLcdWrites
  /\ Ppu_ly(mmu) \in LcdWriteLines
  /\ ppu.dot \in LcdWriteDots
  /\ mmu' = BusWrite(mmu, w.addr, w.val)
  /\ ev' = [kind |-> "write", addr |-> w.addr, val |-> w.val]
  /\ nops' = nops + 1
  /\ hist' = [hist EXCEPT !.lyw = @ \/ w.addr = 65348]
  /\ UNCHANGED <<ppu, cpu, gb, debug_assertions, ctor>>

\* What a PPU cycle adds to the history: the VBlank requests of the frame
\* under way, the idle Draw cycles of the line and the lines completed.
PpuHist(h, s, t, pixel) ==
  [h EXCEPT
     !.vreq   = IF t.mmu.req % 2 = 1 THEN @ + 1
                ELSE IF Ppu_ly(t.mmu) = 0 /\ Ppu_ly(s.mmu) # 0 THEN 0
                ELSE @,
     !.lyw    = IF Ppu_ly(t.mmu) = 0 /\ Ppu_ly(s.mmu) # 0 THEN FALSE ELSE @,
     !.stalls = IF s.ppu.mode # "Draw" THEN 0
                ELSE IF pixel.some THEN @ ELSE @ + 1,
     !.lines  = IF t.ppu.dot = 0 /\ s.ppu.dot # 0 THEN @ + 1 ELSE @]

\* The pixel the pipeline gives in whole-frame runs.
BgPixel == Some(0, "BgWin")

\* if ppu.enabled() { ppu.cycle() }
PpuTick ==
  /\ ~mmu.panic
  /\ Ppu_enabled(mmu)
  /\ LET s == [ppu |-> ppu, mmu |-> [mmu EXCEPT !.req = 0]]
         t == Ppu_cycle(s, ~debug_assertions, BgPixel, "Background")
     IN  /\ ppu' = t.ppu
         /\ mmu' = t.mmu
         /\ hist' = [PpuHist(hist, s, t, BgPixel) EXCEPT !.lines = 0]
  /\ ev' = [kind |-> "tick", addr |-> 0, val |-> Ppu_ly(mmu)]
  /\ UNCHANGED <<nops, cpu, gb, debug_assertions, ctor>>

NextPpu ==
  \/ \E w \in LcdWrites : LcdWrite(w)
  \/ PpuTick

SpecPpu == InitPpu /\ [][NextPpu]_vars

(***************************************************************************)
(* One line of the PPU with every pipeline behaviour: from the start of    *)
(* the line's Scan, each Draw cycle shifts out any pixel or none.          *)
(***************************************************************************)
MaxStalls == 2
MaxLines == 1

\* Lines the run starts on; 200 is a line the CPU wrote to LY.
DrawLines == {0, 143, 200}

\* BGP, OBP0 and OBP1 at the start of the line.
Palettes ==
  { [bgp |-> 228, obp0 |-> 27, obp1 |-> 147] }

Pixels ==
  {NoPixel} \cup {Some(col, pal) : col \in 0 .. 3, pal \in {"BgWin", "Obp0", "Obp1"}}

Layers == {"Background", "Window"}

\* What the pipeline gives in whole-line runs: nothing, a background pixel
\* or a sprite pixel.
LinePixels == {NoPixel, Some(0, "BgWin"), Some(3, "Obp1")}

InitDraw ==
  /\ \E ly \in DrawLines, p \in Palettes :
       mmu = [NewMmu(TRUE) EXCEPT
                !.lcd = (0 :> 145) @@ (4 :> ly) @@ (7 :> p.bgp)
                          @@ (8 :> p.obp0) @@ (9 :> p.obp1)]
  /\ ev = NoEvent
  /\ gb = GbDefault
  /\ nops = 0
  /\ hist = NoHist
  /\ ppu = PpuDefault
  /\ cpu = CpuDefault
  /\ debug_assertions \in BOOLEAN
  /\ ctor = NoCtor

\* if ppu.enabled() { ppu.cycle() }, the pipeline giving pixel and layer
DrawTick(pixel, layer) ==
  /\ ~mmu.panic
  /\ Ppu_enabled(mmu)
  /\ hist.lines < MaxLines
  /\ ppu.mode = "Draw" /\ ~pixel.some => hist.stalls < MaxStalls
  /\ ppu.mode # "Draw" => pixel = NoPixel /\ layer = "Background"
  /\ LET s == [ppu |-> ppu, mmu |-> [mmu EXCEPT !.req = 0]]
         t == Ppu_cycle(s, ~debug_assertions, pixel, layer)
     IN  /\ ppu' = t.ppu
         /\ mmu' = t.mmu
         /\ hist' = PpuHist(hist, s, t, pixel)
  /\ ev' = [kind |-> "tick", addr |-> 0, val |-> Ppu_ly(mmu), pixel |-> pixel]
  /\ UNCHANGED <<nops, cpu, gb, debug_assertions, ctor>>

NextDraw ==
  \E pixel \in LinePixels, layer \in Layers : DrawTick(pixel, layer)

SpecDraw == InitDraw /\ [][NextDraw]_vars

(***************************************************************************)
(* The first pixels of a line under every value of a palette register.     *)
(***************************************************************************)
MaxPixels == 2

PalVals == 0 .. 255

InitColor ==
  /\ \E pal \in PalVals :
       mmu = [NewMmu(TRUE) EXCEPT
                !.lcd = (0 :> 145) @@ (7 :> pal) @@ (8 :> 255 - pal)
                          @@ (9 :> (pal + 85) % 256)]
  /\ ev = NoEvent
  /\ gb = GbDefault
  /\ nops = 0
  /\ hist = NoHist
  /\ ppu = [PpuDefault EXCEPT !.mode = "Draw", !.dot = SCAN_DOTS]
  /\ cpu = CpuDefault
  /\ debug_assertions \in BOOLEAN
  /\ ctor = NoCtor

\* a Draw cycle among the first pixels of the line
ColorTick(pixel) ==
  /\ ppu.lx < MaxPixels
  /\ DrawTick(pixel, "Background")

NextColor == \E pixel \in Pixels : ColorTick(pixel)

SpecColor == InitColor /\ [][NextColor]_vars

(***************************************************************************)
(* Claims about the PPU.                                                   *)
(***************************************************************************)
\* C2 (as stated): in every reachable state, after any sequence of ticks
\* and CPU writes to the LCD registers, LY < 154 and dot < 456; no HBlank
\* step produces LY > 153.
C2_LineBounds ==
  /\ Ppu_ly(mmu) < LINES
  /\ ppu.dot < DOTS

HBlankStep == ppu.mode = "HBlank" /\ ev'.kind = "tick" /\ ~mmu'.panic

\* Before dot 456 an HBlank step only counts the dot.
C17_Idle ==
  HBlankStep /\ ppu.dot + 1 < 456 =>
    /\ ppu'.mode = "HBlank"
    /\ ppu'.dot = ppu.dot + 1
    /\ Ppu_ly(mmu') = Ppu_ly(mmu)
    /\ mmu'.req = 0
    /\ mmu'.iflag = mmu.iflag

\* On the step that reaches dot 456 the dot is reset, LY is one more, the
\* next mode follows the new LY, and VBlank is requested exactly when the
\* new LY is not below 144.
C17_LineEnd ==
  HBlankStep /\ ppu.dot + 1 = 456 =>
    /\ ppu'.dot = 0
    /\ Ppu_ly(mmu) < 255 => Ppu_ly(mmu') = Ppu_ly(mmu) + 1
    /\ ppu'.mode = IF Ppu_ly(mmu') < 144 THEN "Scan" ELSE "VBlank"
    /\ mmu'.req = IF Ppu_ly(mmu') < 144 THEN 0 ELSE 1
    /\ mmu'.iflag = BitOr(mmu.iflag, mmu'.req)

\* In a frame whose LY only the PPU has written, the requesting step is the
\* one on which LY becomes 144.
C17_At144 ==
  HBlankStep /\ ~hist.lyw /\ mmu'.req # 0 => Ppu_ly(mmu') = 144

DrawStep == ppu.mode = "Draw" /\ ev'.kind = "tick"

\* C18: a Draw step writes at most one pixel, at LY*160 + LX with LX < 160
\* and inside the 160x144 buffer; LX grows by one per written pixel and not
\* otherwise; Draw gives way to HBlank on the step where LX reaches 160.
C18_Draw ==
  [][ /\ DrawStep =>
           /\ Len(ppu'.wrote) <= 1
           /\ \A i \in 1 .. Len(ppu'.wrote) :
                /\ ppu'.wrote[i].idx = Ppu_ly(mmu) * 160 + ppu.lx
                /\ ppu.lx < 160
                /\ ppu'.wrote[i].idx \in 0 .. (160 * 144 - 1)
           /\ ppu'.lx = ppu.lx + Len(ppu'.wrote)
           /\ ppu'.lx <= 160
           /\ ppu'.mode = IF ppu'.lx = 160 THEN "HBlank" ELSE "Draw"
      /\ ~DrawStep /\ ev'.kind = "tick" =>
           /\ ppu'.wrote = << >>
           /\ ppu'.lx = ppu.lx \/ (ppu'.mode = "Draw" /\ ppu'.lx = 0)
    ]_vars

C18_Witness ==
  /\ ppu.mode = "HBlank" /\ ppu.lx = 160
  /\ Len(ppu.wrote) = 1
  /\ ppu.wrote[1].idx = 143 * 160 + 159
  /\ hist.stalls > 0
  /\ ppu.winln = 1

\* The palette register of a tag, read over the bus.
PalOf(m, tag) ==
  CASE tag = "BgWin" -> BusRead(m, 65351)
    [] tag = "Obp0"  -> BusRead(m, 65352)
    [] tag = "Obp1"  -> BusRead(m, 65353)

Shade(pal, c) == (pal \div (4 ^ c)) % 4

\* C19: the shade written for a pixel of colour c is (pal >> 2c) & 3, pal
\* being BGP, OBP0 or OBP1 by the pixel's palette tag, and is a 2-bit value.
C19_Shade ==
  [][ DrawStep =>
        \A i \in 1 .. Len(ppu'.wrote) :
          /\ ppu'.wrote[i].col = Shade(PalOf(mmu, ev'.pixel.pal), ev'.pixel.col)
          /\ ppu'.wrote[i].col \in 0 .. 3
    ]_vars

C19_Witness ==
  /\ PalOf(mmu, "BgWin") = 27 /\ PalOf(mmu, "Obp0") = 228
  /\ ev.kind = "tick" /\ ev.pixel = Some(1, "Obp0")
  /\ ppu.wrote = << [idx |-> 1, col |-> 1] >>


(***************************************************************************)
(* The SM83 CPU (hw/cpu/sm83).  An instruction is an Operation: the        *)
(* instruction's kind k, its micro-step s and the step's payload x, y.     *)
(* A micro-step takes the opcode and the machine s = [cpu, mmu] and gives  *)
(* the machine with the step's Return in ret: Ok(Some(op)), Ok(None),      *)
(* Err(Error::Opcode(code)) or Err(Error::Unimplemented(code)).            *)
(* cpu.txn lists the bus transactions of the micro-step under way.         *)
(***************************************************************************)
Op(k, st, x, y) == [k |-> k, s |-> st, x |-> x, y |-> y]

Ok_some(s, op) ==
  [cpu |-> s.cpu, mmu |-> s.mmu, ret |-> [tag |-> "Some", op |-> op, code |-> 0]]

Ok_none(s) ==
  [cpu |-> s.cpu, mmu |-> s.mmu,
   ret |-> [tag |-> "None", op |-> OperationDefault, code |-> 0]]

Err_opcode(s, code) ==
  [cpu |-> s.cpu, mmu |-> s.mmu,
   ret |-> [tag |-> "ErrOpcode", op |-> OperationDefault, code |-> code]]

Err_unimplemented(s, code) ==
  [cpu |-> s.cpu, mmu |-> s.mmu,
   ret |-> [tag |-> "ErrUnimplemented", op |-> OperationDefault, code |-> code]]

\* Flag masks within F.
Flag_Z == 128
Flag_N == 64
Flag_H == 32
Flag_C == 16

Flag_get(flags, mask) == BitAnd(flags, mask) # 0

Flag_set(flags, mask, on) ==
  IF on THEN BitOr(flags, mask) ELSE BitAnd(flags, 255 - mask)

\* The register pairs of the file.
File_bc(file) == file.b * 256 + file.c
File_de(file) == file.d * 256 + file.e
File_hl(file) == file.h * 256 + file.l

File_hl_store(file, value) ==
  [file EXCEPT !.h = value \div 256, !.l = value % 256]

\* Cpu::fetchbyte: read [PC] and advance PC.
Cpu_fetchbyte(s) ==
  LET pc == s.cpu.pc IN
  [ val |-> Cpu_read(s.mmu, pc),
    s   |-> [s EXCEPT !.cpu.pc = U16(pc + 1),
                      !.cpu.txn = Append(@, [rw |-> "r", addr |-> pc])] ]

\* Cpu::readbyte: read [HL].
Cpu_readbyte(s) ==
  LET hl == File_hl(s.cpu) IN
  [ val |-> Cpu_read(s.mmu, hl),
    s   |-> [s EXCEPT !.cpu.txn = Append(@, [rw |-> "r", addr |-> hl])] ]

\* Cpu::pushbyte: decrement SP and write the byte at [SP].
Cpu_pushbyte(s, byte) ==
  LET sp == U16(s.cpu.sp + 65535) IN
  [s EXCEPT !.cpu.sp = sp,
            !.mmu = BusWrite(@, sp, byte),
            !.cpu.txn = Append(@, [rw |-> "w", addr |-> sp])]

\* helpers::get_op8: the 8-bit operand selected by the opcode's low bits.
Helpers_get_op8(s, idx) ==
  CASE idx = 0 -> s.cpu.b
    [] idx = 1 -> s.cpu.c
    [] idx = 2 -> s.cpu.d
    [] idx = 3 -> s.cpu.e
    [] idx = 4 -> s.cpu.h
    [] idx = 5 -> s.cpu.l
    [] idx = 6 -> Cpu_read(s.mmu, File_hl(s.cpu))
    [] idx = 7 -> s.cpu.a

(***************************************************************************)
(* CALL a16 and CALL cc, a16 (insn/exec/call.rs).                          *)
(***************************************************************************)
\* A first step that fetches both bytes of the target.
Call_fetch0_both(code, s) ==
  IF code \in {196, 204, 205, 212, 220}
    THEN LET r == Cpu_fetchbyte(s)
             q == Cpu_fetchbyte(r.s)
         IN  Ok_some(q.s, Op("Call", "Check", q.val * 256 + r.val, 0))
    ELSE Err_opcode(s, code)

Call_fetch0(code, s) ==
  IF code \in {196, 204, 205, 212, 220}
    THEN LET r == Cpu_fetchbyte(s)
         IN  Ok_some(r.s, Op("Call", "Fetch1", r.val, 0))
    ELSE Err_opcode(s, code)

Call_fetch1(code, s, a8) ==
  LET r   == Cpu_fetchbyte(s)
      a16 == r.val * 256 + a8
  IN  Ok_some(r.s, Op("Call", "Check", a16, 0))

\* A check that does not know the unconditional CALL.
Call_check_strict(code, s, a16) ==
  LET flags == s.cpu.f IN
  IF code \notin {196, 204, 212, 220}
    THEN Err_opcode(s, code)
    ELSE
      LET cond == CASE code = 196 -> ~Flag_get(flags, Flag_Z)
                    [] code = 204 -> Flag_get(flags, Flag_Z)
                    [] code = 212 -> ~Flag_get(flags, Flag_C)
                    [] code = 220 -> Flag_get(flags, Flag_C)
      IN  IF cond THEN Ok_some(s, Op("Call", "Push0", a16, 0))
                  ELSE Ok_none(s)

Call_check(code, s, a16) ==
  LET flags == s.cpu.f IN
  IF code \notin {196, 204, 212, 220, 205}
    THEN Err_opcode(s, code)
    ELSE
      LET cond == CASE code = 196 -> ~Flag_get(flags, Flag_Z)
                    [] code = 204 -> Flag_get(flags, Flag_Z)
                    [] code = 212 -> ~Flag_get(flags, Flag_C)
                    [] code = 220 -> Flag_get(flags, Flag_C)
                    [] code = 205 -> TRUE
      IN  IF cond THEN Ok_some(s, Op("Call", "Push0", a16, 0))
                  ELSE Ok_none(s)

\* A push that puts the low byte of the return address on the stack first.
Call_push0_low_first(code, s, a16) ==
  LET pc == s.cpu.pc IN
  Ok_some(Cpu_pushbyte(s, pc % 256), Op("Call", "Push1", a16, pc \div 256))

Call_push0(code, s, a16) ==
  LET pc == s.cpu.pc IN
  Ok_some(Cpu_pushbyte(s, pc \div 256), Op("Call", "Push1", a16, pc % 256))

Call_push1(code, s, a16, pc0) ==
  Ok_some(Cpu_pushbyte(s, pc0), Op("Call", "Jump", a16, 0))

Call_jump(code, s, a16) ==
  Ok_none([s EXCEPT !.cpu.pc = a16])

Call_exec(op, code, s) ==
  CASE op.s = "Fetch0" -> Call_fetch0(code, s)
    [] op.s = "Fetch1" -> Call_fetch1(code, s, op.x)
    [] op.s = "Check"  -> Call_check(code, s, op.x)
    [] op.s = "Push0"  -> Call_push0(code, s, op.x)
    [] op.s = "Push1"  -> Call_push1(code, s, op.x, op.y)
    [] op.s = "Jump"   -> Call_jump(code, s, op.x)

(***************************************************************************)
(* ADD HL, rr and ADD SP, e8 (insn/exec/addw.rs).                          *)
(***************************************************************************)
Addw_fetch(code, s) ==
  CASE code = 9   -> Ok_some(s, Op("Addw", "Execute", File_hl(s.cpu), File_bc(s.cpu)))
    [] code = 25  -> Ok_some(s, Op("Addw", "Execute", File_hl(s.cpu), File_de(s.cpu)))
    [] code = 41  -> Ok_some(s, Op("Addw", "Execute", File_hl(s.cpu), File_hl(s.cpu)))
    [] code = 57  -> Ok_some(s, Op("Addw", "Execute", File_hl(s.cpu), s.cpu.sp))
    [] code = 232 -> LET r == Cpu_fetchbyte(s)
                     IN  Ok_some(r.s, Op("Addw", "DelayA0xE8", r.val, 0))
    [] OTHER      -> Err_opcode(s, code)

\* An execute that takes the half carry from bit 7.
Addw_execute_half8(code, s, op1, op2) ==
  LET res   == U16(op1 + op2)
      carry == op1 + op2 > 65535
      f1    == Flag_set(s.cpu.f, Flag_N, FALSE)
      f2    == Flag_set(f1, Flag_H, 255 < (op1 % 256) + (op2 % 256))
      f3    == Flag_set(f2, Flag_C, carry)
  IN  Ok_none([s EXCEPT !.cpu = [File_hl_store(@, res) EXCEPT !.f = f3]])

Addw_execute(code, s, op1, op2) ==
  LET res   == U16(op1 + op2)
      carry == op1 + op2 > 65535
      f1    == Flag_set(s.cpu.f, Flag_N, FALSE)
      f2    == Flag_set(f1, Flag_H, 4095 < (op1 % 4096) + (op2 % 4096))
      f3    == Flag_set(f2, Flag_C, carry)
  IN  Ok_none([s EXCEPT !.cpu = [File_hl_store(@, res) EXCEPT !.f = f3]])

\* A first delay that goes straight to the execute step.
Addw_delay_a_skips(code, s, e8) ==
  Ok_some(s, Op("Addw", "Execute0xE8", e8, 0))

Addw_delay_a_0xe8(code, s, e8) ==
  Ok_some(s, Op("Addw", "DelayB0xE8", e8, 0))

Addw_delay_b_0xe8(code, s, e8) ==
  Ok_some(s, Op("Addw", "Execute0xE8", e8, 0))

\* An execute that adds the offset without extending its sign.
Addw_execute_0xe8_unsigned(code, s, e8) ==
  LET op1 == s.cpu.sp
      op2 == e8
      res == U16(op1 + op2)
      f1  == Flag_set(s.cpu.f, Flag_Z, FALSE)
      f2  == Flag_set(f1, Flag_N, FALSE)
      f3  == Flag_set(f2, Flag_H, 15 < (op1 % 16) + (op2 % 16))
      f4  == Flag_set(f3, Flag_C, 255 < (op1 % 256) + (op2 % 256))
  IN  Ok_none([s EXCEPT !.cpu.sp = res, !.cpu.f = f4])

Addw_execute_0xe8(code, s, e8) ==
  LET op1 == s.cpu.sp
      op2 == IF e8 >= 128 THEN 65280 + e8 ELSE e8
      res == U16(op1 + op2)
      f1  == Flag_set(s.cpu.f, Flag_Z, FALSE)
      f2  == Flag_set(f1, Flag_N, FALSE)
      f3  == Flag_set(f2, Flag_H, 15 < (op1 % 16) + (op2 % 16))
      f4  == Flag_set(f3, Flag_C, 255 < (op1 % 256) + (op2 % 256))
  IN  Ok_none([s EXCEPT !.cpu.sp = res, !.cpu.f = f4])

Addw_exec(op, code, s) ==
  CASE op.s = "Fetch"       -> Addw_fetch(code, s)
    [] op.s = "Execute"     -> Addw_execute(code, s, op.x, op.y)
    [] op.s = "DelayA0xE8"  -> Addw_delay_a_0xe8(code, s, op.x)
    [] op.s = "DelayB0xE8"  -> Addw_delay_b_0xe8(code, s, op.x)
    [] op.s = "Execute0xE8" -> Addw_execute_0xe8(code, s, op.x)

(***************************************************************************)
(* OR A, r / OR A, [HL] / OR A, d8 (insn/exec/or.rs).                      *)
(***************************************************************************)
\* An execute that keeps the zero flag in bit 3.
Or_execute_low(code, s, op2) ==
  LET acc == s.cpu.a
      res == BitOr(acc, op2)
      f1  == Flag_set(s.cpu.f, 8, res = 0)
      f2  == Flag_set(f1, Flag_N, FALSE)
      f3  == Flag_set(f2, Flag_H, FALSE)
      f4  == Flag_set(f3, Flag_C, FALSE)
  IN  Ok_none([s EXCEPT !.cpu.a = res, !.cpu.f = f4])

Or_execute(code, s, op2) ==
  LET acc == s.cpu.a
      res == BitOr(acc, op2)
      f1  == Flag_set(s.cpu.f, Flag_Z, res = 0)
      f2  == Flag_set(f1, Flag_N, FALSE)
      f3  == Flag_set(f2, Flag_H, FALSE)
      f4  == Flag_set(f3, Flag_C, FALSE)
  IN  Ok_none([s EXCEPT !.cpu.a = res, !.cpu.f = f4])

Or_fetch(code, s) ==
  CASE code = 182 -> LET r == Cpu_readbyte(s)
                     IN  Ok_some(r.s, Op("Or", "Execute", r.val, 0))
    [] code = 246 -> LET r == Cpu_fetchbyte(s)
                     IN  Ok_some(r.s, Op("Or", "Execute", r.val, 0))
    [] code \in 176 .. 183 /\ code # 182 ->
         Or_execute(code, s, Helpers_get_op8(s, code % 8))
    [] OTHER      -> Err_opcode(s, code)

Or_exec(op, code, s) ==
  CASE op.s = "Fetch"   -> Or_fetch(code, s)
    [] op.s = "Execute" -> Or_execute(code, s, op.x)

(***************************************************************************)
(* STOP (insn/exec/stop.rs).                                               *)
(***************************************************************************)
Stop_execute(code, s, debug) ==
  IF code # 16 THEN Err_opcode(s, code)
  ELSE IF debug THEN Err_unimplemented(s, code)
  ELSE Ok_none(s)

Stop_exec(op, code, s, debug) == Stop_execute(code, s, debug)

\* Operation::exec
Operation_exec(op, code, s, debug) ==
  CASE op.k = "Call" -> Call_exec(op, code, s)
    [] op.k = "Addw" -> Addw_exec(op, code, s)
    [] op.k = "Or"   -> Or_exec(op, code, s)
    [] op.k = "Stop" -> Stop_exec(op, code, s, debug)

\* The instruction table: the Operation an opcode starts.
Instruction_new(code) ==
  CASE code \in {196, 204, 205, 212, 220} -> Op("Call", "Fetch0", 0, 0)
    [] code \in {9, 25, 41, 57, 232}      -> Op("Addw", "Fetch", 0, 0)
    [] code \in 176 .. 183 \cup {246}     -> Op("Or", "Fetch", 0, 0)
    [] code = 16                          -> Op("Stop", "Execute", 0, 0)
    [] OTHER                              -> Op("Other", "Fetch", 0, 0)

Machines == {"Call", "Addw", "Or", "Stop"}

(***************************************************************************)
(* The CPU at work: a program of one opcode and two operand bytes at       *)
(* 0xc000, run one micro-step at a time.                                   *)
(***************************************************************************)
MaxInsns == 1

\* Where the program sits.
ProgramBase == 49152

\* Opcodes of the program: every opcode of the four machines, and NOP.
Opcodes ==
  {196, 204, 205, 212, 220} \cup {9, 25, 41, 57, 232}
    \cup (176 .. 183) \cup {246} \cup {16, 0}

\* Operand bytes: each is an opcode too; 0xf6 is a negative offset.
OperandLo == {9, 246}
OperandHi == {192, 16}

FlagVals == {0, 128, 16, 240}

\* Register files the program starts from.
Files ==
  { [a |-> 0,  b |-> 0,   c |-> 1, d |-> 240, e |-> 0, h |-> 15,  l |-> 255,
     sp |-> 65534],
    [a |-> 15, b |-> 128, c |-> 0, d |-> 8,   e |-> 0, h |-> 136, l |-> 0,
     sp |-> 53248],
    [a |-> 0,  b |-> 0,   c |-> 0, d |-> 0,   e |-> 0, h |-> 192, l |-> 1,
     sp |-> 49407] }

\* The Operations a run starts in: the opcode fetch, or the first step of
\* a machine handed the opcode at ProgramBase (the instruction table is
\* not the only caller of Operation::exec).
Entries == {OperationDefault} \cup {Instruction_new(c) : c \in {205, 9, 176, 16}}

InitCpu ==
  /\ \E code \in Opcodes, lo \in OperandLo, hi \in OperandHi,
        flags \in FlagVals, file \in Files, entry \in Entries :
       /\ mmu = [NewMmu(TRUE) EXCEPT
                   !.wram = (0 :> code) @@ (1 :> lo) @@ (2 :> hi)]
       /\ cpu = [CpuDefault EXCEPT
                   !.a = file.a, !.b = file.b, !.c = file.c, !.d = file.d,
                   !.e = file.e, !.h = file.h, !.l = file.l, !.sp = file.sp,
                   !.f = flags,
                   !.pc = IF entry = OperationDefault
                            THEN ProgramBase ELSE ProgramBase + 1,
                   !.code = IF entry = OperationDefault THEN 0 ELSE code,
                   !.at = ProgramBase,
                   !.op = entry]
  /\ debug_assertions \in BOOLEAN
  /\ ctor = NoCtor
  /\ ev = NoEvent
  /\ gb = GbDefault
  /\ nops = 0
  /\ hist = NoHist
  /\ ppu = PpuDefault

CpuRunning ==
  /\ ~mmu.panic
  /\ cpu.ret \in {"None", "Some"}

\* Cpu::cycle at the fetch stage: read the opcode at [PC], pick its
\* Operation from the instruction table.  cpu.at keeps the opcode's
\* address and cpu.steps counts the instruction's micro-steps.
Cpu_fetch(s) ==
  LET r == Cpu_fetchbyte([s EXCEPT !.cpu.txn = << >>]) IN
  [r.s EXCEPT !.cpu.code = r.val,
              !.cpu.op = Instruction_new(r.val),
              !.cpu.ret = "Some",
              !.cpu.last = OperationDefault,
              !.cpu.insns = @ + 1,
              !.cpu.at = s.cpu.pc,
              !.cpu.steps = 0]

\* Cpu::cycle at the execute stage: one micro-step of the Operation; after
\* Ok(None) the next cycle fetches, an Err is handed to the host.
Cpu_execute(s, debug) ==
  LET r == Operation_exec(s.cpu.op, s.cpu.code,
                          [s EXCEPT !.cpu.txn = << >>], debug)
  IN  [cpu |-> [r.cpu EXCEPT !.ret = r.ret.tag,
                             !.err = r.ret.code,
                             !.op = IF r.ret.tag \in {"Some", "None"}
                                      THEN r.ret.op ELSE s.cpu.op,
                             !.last = s.cpu.op,
                             !.steps = @ + 1],
       mmu |-> r.mmu]

CpuFetch ==
  /\ CpuRunning
  /\ cpu.op = OperationDefault
  /\ cpu.insns < MaxInsns
  /\ LET t == Cpu_fetch([cpu |-> cpu, mmu |-> mmu]) IN
       /\ cpu' = t.cpu
       /\ mmu' = t.mmu
  /\ ev' = [kind |-> "fetch", addr |-> cpu.pc, val |-> 0]
  /\ UNCHANGED <<nops, hist, ppu, gb, debug_assertions, ctor>>

CpuStep ==
  /\ CpuRunning
  /\ cpu.op.k \in Machines
  /\ LET t == Cpu_execute([cpu |-> cpu, mmu |-> mmu], debug_assertions) IN
       /\ cpu' = t.cpu
       /\ mmu' = t.mmu
  /\ ev' = [kind |-> "step", addr |-> 0, val |-> 0]
  /\ UNCHANGED <<nops, hist, ppu, gb, debug_assertions, ctor>>

NextCpu ==
  \/ CpuFetch
  \/ CpuStep

SpecCpu == InitCpu /\ [][NextCpu]_vars

(***************************************************************************)
(* The whole machine, one GameBoy::cycle at a time.                        *)
(***************************************************************************)
MaxTicks == 12

\* Pic::int: an interrupt is pending when a flagged one is enabled.
Pic_int(m) == BitAnd(BitAnd(m.iflag, m.ie), 31) # 0

\* Cpu::wake
Cpu_wake(c) == [c EXCEPT !.halted = FALSE]

\* Cpu::enabled
Cpu_enabled(c) == ~c.halted

\* Whether bit n of a byte is set.
BitSet(byte, n) == (byte \div (2 ^ n)) % 2 = 1

\* A PIC that hands over the highest interrupt flagged and enabled.
Pic_highest(m) ==
  LET pending == {n \in 0 .. 4 : BitSet(m.iflag, n) /\ BitSet(m.ie, n)}
  IN  CHOOSE n \in pending : \A k \in pending : n >= k

\* The interrupt the PIC hands over: the lowest one flagged and enabled.
Pic_lowest(m) ==
  LET pending == {n \in 0 .. 4 : BitSet(m.iflag, n) /\ BitSet(m.ie, n)}
  IN  CHOOSE n \in pending : \A k \in pending : n <= k

\* Interrupt handler entry, a machine cycle at a time: two idle cycles, the
\* push of PC's high byte and of its low byte, then the jump to the vector,
\* which clears the interrupt's bit in IF and clears IME.
Int_step(s) ==
  LET s0 == [s EXCEPT !.cpu.txn = << >>, !.cpu.last = s.cpu.op,
                      !.cpu.steps = @ + 1]
      st == s.cpu.op.s
  IN  CASE st = "Idle0" -> [s0 EXCEPT !.cpu.op = Op("Int", "Idle1", 0, 0)]
        [] st = "Idle1" -> [s0 EXCEPT !.cpu.op = Op("Int", "Push0", 0, 0)]
        [] st = "Push0" ->
             [Cpu_pushbyte(s0, s0.cpu.pc \div 256)
                EXCEPT !.cpu.op = Op("Int", "Push1", 0, 0)]
        [] st = "Push1" ->
             [Cpu_pushbyte(s0, s0.cpu.pc % 256)
                EXCEPT !.cpu.op = Op("Int", "Jump", 0, 0)]
        [] st = "Jump"  ->
             IF Pic_int(s0.mmu)
               THEN LET n == Pic_lowest(s0.mmu) IN
                    [s0 EXCEPT !.cpu.pc = 64 + 8 * n,
                               !.cpu.ime = FALSE,
                               !.cpu.op = OperationDefault,
                               !.mmu.iflag = @ - 2 ^ n]
               ELSE [s0 EXCEPT !.cpu.pc = 0,
                               !.cpu.ime = FALSE,
                               !.cpu.op = OperationDefault]

\* Cpu::cycle: between instructions a pending interrupt is serviced when
\* IME is set; otherwise fetch an opcode or run a micro-step of the
\* Operation.
Cpu_cycle(s, debug) ==
  IF s.cpu.op = OperationDefault
    THEN IF s.cpu.ime /\ Pic_int(s.mmu)
           THEN Int_step([s EXCEPT !.cpu.op = Op("Int", "Idle0", 0, 0),
                                   !.cpu.steps = 0])
           ELSE Cpu_fetch(s)
    ELSE IF s.cpu.op.k = "Int"
           THEN Int_step(s)
           ELSE Cpu_execute(s, debug)

\* A wake-check that wakes the CPU whatever the PIC holds.
Gb_wake_always(c, m) == Cpu_wake(c)

\* GameBoy::cycle, the wake-check: wake the CPU if an interrupt is pending.
Gb_wake(c, m) == IF Pic_int(m) THEN Cpu_wake(c) ELSE c

\* Timer::enabled: the counter always runs.
Timer_enabled(g) == TRUE

\* The bit of the counter TAC selects, and whether it is set and enabled.
Timer_bit(tac) ==
  CASE tac % 4 = 0 -> 9
    [] tac % 4 = 1 -> 3
    [] tac % 4 = 2 -> 5
    [] tac % 4 = 3 -> 7

Timer_line(tac, counter) ==
  (tac \div 4) % 2 = 1 /\ (counter \div (2 ^ Timer_bit(tac))) % 2 = 1

\* Timer::cycle: a pending reload loads TMA into TIMA and requests the
\* Timer interrupt; the counter moves on, DIV shows its upper byte, and a
\* falling edge of the selected bit increments TIMA.
Timer_cycle(s) ==
  LET m0   == IF s.gb.reload
                THEN Pic_req([s.mmu EXCEPT
                               !.timer = RamWrite(@, 1, RamRead(@, 2))], 4)
                ELSE s.mmu
      tac  == RamRead(m0.timer, 3)
      c0   == s.gb.counter
      c1   == (c0 + 1) % 65536
      fall == Timer_line(tac, c0) /\ ~Timer_line(tac, c1)
      tima == RamRead(m0.timer, 1)
      m1   == [m0 EXCEPT !.timer = RamWrite(@, 0, c1 \div 256)]
  IN  [ mmu |-> IF fall
                  THEN [m1 EXCEPT !.timer = RamWrite(@, 1, U8(tima + 1))]
                  ELSE m1,
        gb  |-> [s.gb EXCEPT !.counter = c1,
                             !.reload = fall /\ tima = 255] ]

\* Ram::reset, as the Blocks of this repository use it ("Reset memory"):
\* the memory is as new.
Ram_reset(ram) == Blank

\* Rom::reset: a ROM keeps its image.
Rom_reset(rom) == rom

\* A reset that leaves the page the transfer was requested from on show.
Dma_reset_shows_source(dma) == [DmaDefault EXCEPT !.page = dma.src]

\* Dma::reset: page and state are taken, leaving their defaults.
Dma_reset(dma) == DmaDefault

\* Raw::reset: self.rom.reset(); self.ram.reset().  Without RAM the ram is
\* the Unmapped device, which has nothing to lose.
Raw_reset(cart) ==
  [cart EXCEPT !.rom = Rom_reset(@),
               !.eram = IF cart.ram THEN Ram_reset(@) ELSE @]

\* Cartridge::reset: self.mbc.reset()
Cartridge_reset(cart) == Raw_reset(cart)

\* GameBoy::reset: the CPU, the cartridge, the boot ROM, the PIC, the
\* joypad, the PPU and the timer are reset and the buses are mapped again;
\* work RAM, high RAM, the serial, sound and wave registers and the cycle
\* count are not touched.
GameBoy_reset(s) ==
  [ cpu |-> CpuDefault,
    ppu |-> PpuDefault,
    mmu |-> [s.mmu EXCEPT
               !.cart  = Cartridge_reset(@),
               !.boot  = [ctl |-> 0, off |-> FALSE],
               !.iflag = 0,
               !.ie    = 0,
               !.con   = 0,
               !.lcd   = Blank,
               !.vram  = Ram_reset(@),
               !.oam   = Ram_reset(@),
               !.dma   = Dma_reset(@),
               !.timer = Blank,
               !.req   = 0],
    gb  |-> [s.gb EXCEPT !.counter = 0, !.reload = FALSE, !.ran = << >>] ]

MaxResets == 1

\* Dots of the line at which the runs start, and the timer's counter there.
StartDots == 452 .. 455
StartCounters == 12 .. 15

\* IE at the start: nothing, VBlank, Timer, the three high bits, all bits.
StartIE == {0, 1, 4, 224, 255}

\* IF at the start: nothing, or the three high bits.
StartIF == {0, 224}

\* Whether the CPU has written the page 0xc0 to the DMA register.
StartDma == {0, 192}

\* The byte the CPU has written to the first cell of external RAM.
StartEram == {0, 64}

\* The machine at the end of line 143: the LCD on, the timer about to
\* overflow at 262144 Hz, a program of OR A,B and ADD HL,BC at 0xc000.
InitGameBoy ==
  /\ \E dot \in StartDots, counter \in StartCounters, enable \in StartIE,
        flags \in StartIF, page \in StartDma, saved \in StartEram,
        halted \in BOOLEAN, ime \in BOOLEAN :
       LET m == [NewMmu(TRUE) EXCEPT
                   !.wram  = (0 :> 176) @@ (1 :> 9) @@ (2 :> 176) @@ (3 :> 176),
                   !.lcd   = (0 :> 145) @@ (4 :> 143),
                   !.timer = (1 :> 255) @@ (2 :> 66) @@ (3 :> 5)]
           i == BusWrite(BusWrite(m, 65535, enable), 65295, flags)
           w == BusWrite(i, 40960, saved)
       IN  /\ mmu = IF page = 0 THEN w ELSE BusWrite(w, 65350, page)
           /\ ppu = [PpuDefault EXCEPT !.mode = "HBlank", !.dot = dot,
                                       !.lx = LCD_wd]
           /\ cpu = [CpuDefault EXCEPT !.pc = ProgramBase, !.at = ProgramBase,
                                       !.b = 1, !.sp = 65534,
                                       !.halted = halted, !.ime = ime]
           /\ gb = [GbDefault EXCEPT !.counter = counter]
  /\ debug_assertions \in BOOLEAN
  /\ ctor = NoCtor
  /\ ev = NoEvent
  /\ nops = 0
  /\ hist = NoHist

TIMA == 65285
TMA == 65286

\* Timer: a write to one of its registers; a write to TIMA cancels a reload
\* that is pending.
Timer_store(s, addr, value) ==
  [ mmu |-> BusWrite(s.mmu, addr, value),
    gb  |-> IF addr = TIMA THEN [s.gb EXCEPT !.reload = FALSE] ELSE s.gb ]

\* A cycle that runs the timer on the CPU's clock, every fourth cycle.
Cycle_timer_on_cpu_clock ==
  /\ ~mmu.panic
  /\ gb.cycle < MaxTicks
  /\ cpu.op.k \in Machines \cup {"Fetch", "Int"}
  /\ \E s1 \in {[cpu |-> Gb_wake(cpu, mmu),
                 mmu |-> [mmu EXCEPT !.req = 0]]} :
     \E runs \in {gb.cycle % 4 = 0 /\ Cpu_enabled(s1.cpu)} :
     \E s2 \in {IF runs THEN Cpu_cycle(s1, debug_assertions) ELSE s1} :
     \E dots \in {Ppu_enabled(s2.mmu)} :
     \E p2 \in {[ppu |-> ppu, mmu |-> s2.mmu]} :
     \E s3 \in {IF dots
                  THEN Ppu_cycle(p2, ~debug_assertions, BgPixel, "Background")
                  ELSE p2} :
     \E times \in {Timer_enabled(gb) /\ gb.cycle % 4 = 0} :
     \E t3 \in {[gb |-> gb, mmu |-> s3.mmu]} :
     \E s4 \in {IF times THEN Timer_cycle(t3) ELSE t3} :
       /\ cpu' = s2.cpu
       /\ ppu' = s3.ppu
       /\ mmu' = s4.mmu
       /\ gb' = [s4.gb EXCEPT
                   !.cycle = @ + 1,
                   !.ran = <<"pic">>
                             \o (IF runs THEN <<"cpu">> ELSE << >>)
                             \o (IF dots THEN <<"ppu">> ELSE << >>)
                             \o (IF times THEN <<"timer">> ELSE << >>)]
  /\ ev' = [kind |-> "clock", addr |-> 0, val |-> 0]
  /\ UNCHANGED <<nops, hist, debug_assertions, ctor>>

\* GameBoy::cycle: wake the CPU if an interrupt is pending, cycle the CPU
\* on every fourth cycle, then the PPU, then the timer, and count the cycle.
\* A run ends where the CPU has decoded an opcode outside the four machines.
Cycle ==
  /\ ~mmu.panic
  /\ gb.cycle < MaxTicks
  /\ cpu.op.k \in Machines \cup {"Fetch", "Int"}
  /\ \E s1 \in {[cpu |-> Gb_wake(cpu, mmu),
                 mmu |-> [mmu EXCEPT !.req = 0]]} :
     \E runs \in {gb.cycle % 4 = 0 /\ Cpu_enabled(s1.cpu)} :
     \E s2 \in {IF runs THEN Cpu_cycle(s1, debug_assertions) ELSE s1} :
     \E dots \in {Ppu_enabled(s2.mmu)} :
     \E p2 \in {[ppu |-> ppu, mmu |-> s2.mmu]} :
     \E s3 \in {IF dots
                  THEN Ppu_cycle(p2, ~debug_assertions, BgPixel, "Background")
                  ELSE p2} :
     \E times \in {Timer_enabled(gb)} :
     \E t3 \in {[gb |-> gb, mmu |-> s3.mmu]} :
     \E s4 \in {IF times THEN Timer_cycle(t3) ELSE t3} :
       /\ cpu' = s2.cpu
       /\ ppu' = s3.ppu
       /\ mmu' = s4.mmu
       /\ gb' = [s4.gb EXCEPT
                   !.cycle = @ + 1,
                   !.ran = <<"pic">>
                             \o (IF runs THEN <<"cpu">> ELSE << >>)
                             \o (IF dots THEN <<"ppu">> ELSE << >>)
                             \o (IF times THEN <<"timer">> ELSE << >>)]
  /\ ev' = [kind |-> "clock", addr |-> 0, val |-> 0]
  /\ UNCHANGED <<nops, hist, debug_assertions, ctor>>

\* GameBoy::reset, called by the host between two cycles
Reset ==
  /\ ~mmu.panic
  /\ nops < MaxResets
  /\ \E t \in {GameBoy_reset([cpu |-> cpu, ppu |-> ppu, mmu |-> mmu,
                              gb |-> gb])} :
       /\ cpu' = t.cpu
       /\ ppu' = t.ppu
       /\ mmu' = t.mmu
       /\ gb' = t.gb
  /\ ev' = [kind |-> "reset", addr |-> 0, val |-> 0]
  /\ nops' = nops + 1
  /\ UNCHANGED <<hist, debug_assertions, ctor>>

NextGameBoy ==
  \/ Cycle
  \/ Reset

SpecGameBoy == InitGameBoy /\ [][NextGameBoy]_vars

(***************************************************************************)
(* Claims about the CPU.                                                   *)
(***************************************************************************)
StepWas(k, st) == ev.kind = "step" /\ cpu.last.k = k /\ cpu.last.s = st

\* C1: every micro-step of CALL (Fetch0, Fetch1, Check, Push0, Push1,
\* Jump), of ADD HL,rr / ADD SP,e8 (Fetch, Execute, DelayA, DelayB,
\* Execute0xE8) and of OR (Fetch, Execute) performs at most one bus
\* transaction: one read or one write, never both and never two.
C1_OneTransaction ==
  ev.kind = "step" /\ cpu.last.k \in {"Call", "Addw", "Or"} =>
    Len(cpu.txn) <= 1

C1_Witness ==
  /\ StepWas("Call", "Push1")
  /\ Len(cpu.txn) = 1
  /\ cpu.txn[1].rw = "w"
  /\ BusRead(mmu, cpu.sp) = (ProgramBase + 3) % 256
  /\ cpu.op.s = "Jump"

\* The micro-step about to run is step st of machine k.
StepOf(k, st) == ev'.kind = "step" /\ cpu.op.k = k /\ cpu.op.s = st

\* The registers other than F, H, L, SP and PC.
SameABCDE(c1, c2) ==
  /\ c1.a = c2.a /\ c1.b = c2.b /\ c1.c = c2.c
  /\ c1.d = c2.d /\ c1.e = c2.e

SameFile(c1, c2) ==
  /\ SameABCDE(c1, c2)
  /\ c1.f = c2.f /\ c1.h = c2.h /\ c1.l = c2.l
  /\ c1.sp = c2.sp /\ c1.pc = c2.pc

Bit(on, mask) == IF on THEN mask ELSE 0

\* C11: after executing any instruction F & 0x0f = 0: no micro-step of
\* ADD HL,rr, ADD SP,e8, OR or CALL sets a bit in the low nibble of F.
C11_LowNibble == cpu.f % 16 = 0

C11_Witness ==
  /\ StepWas("Or", "Fetch")
  /\ cpu.code = 176
  /\ cpu.ret = "None"
  /\ cpu.a = 0
  /\ cpu.f = 128

\* The register pair an ADD HL,rr opcode adds.
AddwSource(code, file) ==
  CASE code = 9  -> file.b * 256 + file.c
    [] code = 25 -> file.d * 256 + file.e
    [] code = 41 -> file.h * 256 + file.l
    [] code = 57 -> file.sp

C12_Fetch ==
  StepOf("Addw", "Fetch") /\ cpu.code \in {9, 25, 41, 57} =>
    /\ cpu'.op.s = "Execute"
    /\ cpu'.op.x = cpu.h * 256 + cpu.l
    /\ cpu'.op.y = AddwSource(cpu.code, cpu)
    /\ SameFile(cpu, cpu')
    /\ mmu' = mmu

C12_Execute ==
  StepOf("Addw", "Execute") =>
    LET hl == cpu.h * 256 + cpu.l
        rr == cpu.op.y
    IN  /\ cpu.op.x = hl
        /\ cpu'.h * 256 + cpu'.l = (hl + rr) % 65536
        /\ cpu'.f = (cpu.f \div 128) * 128
                      + Bit((hl % 4096) + (rr % 4096) > 4095, 32)
                      + Bit(hl + rr > 65535, 16)
        /\ SameABCDE(cpu, cpu')
        /\ cpu'.sp = cpu.sp /\ cpu'.pc = cpu.pc
        /\ mmu' = mmu
        /\ cpu'.ret = "None"

\* C12: ADD HL,rr (0x09, 0x19, 0x29, 0x39) sets HL to (HL + rr) mod 2^16
\* from the operands read at the first micro-step, clears N, sets H to the
\* carry out of bit 11 and C to the carry out of bit 15, and leaves Z and
\* every register other than H, L and F alone.
C12_AddHL == [][C12_Fetch /\ C12_Execute]_vars

C12_Witness ==
  /\ StepWas("Addw", "Execute")
  /\ cpu.code = 9
  /\ cpu.h = 16 /\ cpu.l = 0
  /\ cpu.b = 0 /\ cpu.c = 1
  /\ cpu.f = 128 + 32

\* C13: ADD SP,e8 (0xe8) sets SP to (SP + sign_extend(e8)) mod 2^16, clears
\* Z and N, sets H to the carry out of bit 3 and C to the carry out of
\* bit 7 of SP's low byte plus the unsigned e8.
C13_AddSP ==
  [][ StepOf("Addw", "Execute0xE8") =>
        LET e8   == cpu.op.x
            sext == IF e8 < 128 THEN e8 ELSE e8 - 256
        IN  /\ cpu'.sp = (cpu.sp + 65536 + sext) % 65536
            /\ cpu'.f = Bit((cpu.sp % 16) + (e8 % 16) > 15, 32)
                          + Bit((cpu.sp % 256) + e8 > 255, 16)
            /\ SameABCDE(cpu, cpu')
            /\ cpu'.h = cpu.h /\ cpu'.l = cpu.l /\ cpu'.pc = cpu.pc
            /\ mmu' = mmu ]_vars

C13_Witness ==
  /\ StepWas("Addw", "Execute0xE8")
  /\ cpu.last.x = 246
  /\ cpu.sp = 53248 - 10
  /\ cpu.f = 0
  /\ cpu.insns = 1

\* C14 (as stated): executing STOP (0x10) returns no error and leaves PC
\* at the opcode's address plus 2, with nothing else changed.
C14_StopSkips ==
  StepWas("Stop", "Execute") /\ cpu.code = 16 =>
    /\ cpu.ret = "None"
    /\ cpu.pc = cpu.at + 2

\* The opcodes each machine implements.
Implemented(k) ==
  CASE k = "Call" -> {196, 204, 205, 212, 220}
    [] k = "Addw" -> {9, 25, 41, 57, 232}
    [] k = "Or"   -> (176 .. 183) \cup {246}
    [] k = "Stop" -> {16}

FirstStep(op) ==
  op \in { Op("Call", "Fetch0", 0, 0), Op("Addw", "Fetch", 0, 0),
           Op("Or", "Fetch", 0, 0), Op("Stop", "Execute", 0, 0) }

\* C15: a machine entered with an opcode it does not implement returns
\* Error::Opcode with that byte at its first micro-step, without a bus
\* transaction or a register change; no later micro-step of an instruction
\* whose first step took the opcode returns Error::Opcode.
C15_OpcodeError ==
  [][ ev'.kind = "step" =>
        /\ FirstStep(cpu.op) /\ cpu.code \notin Implemented(cpu.op.k) =>
             /\ cpu'.ret = "ErrOpcode"
             /\ cpu'.err = cpu.code
             /\ cpu'.txn = << >>
             /\ SameFile(cpu, cpu')
             /\ mmu' = mmu
        /\ cpu'.ret = "ErrOpcode" =>
             /\ FirstStep(cpu.op)
             /\ cpu.code \notin Implemented(cpu.op.k) ]_vars

C15_Witness ==
  /\ ev.kind = "step"
  /\ cpu.ret = "ErrOpcode"
  /\ cpu.err = 205
  /\ cpu.last = Op("Addw", "Fetch", 0, 0)
  /\ cpu.pc = ProgramBase + 1

\* The condition of a CALL opcode under flags f.
CallTaken(code, f) ==
  CASE code = 196 -> f \div 128 = 0
    [] code = 204 -> f \div 128 = 1
    [] code = 212 -> (f \div 16) % 2 = 0
    [] code = 220 -> (f \div 16) % 2 = 1
    [] code = 205 -> TRUE

\* The micro-steps of an instruction.
StepCount(code, f) ==
  CASE code \in {196, 204, 205, 212, 220} ->
         IF CallTaken(code, f) THEN 6 ELSE 3
    [] code \in {9, 25, 41, 57} -> 2
    [] code = 232               -> 4
    [] code \in {182, 246}      -> 2
    [] code \in (176 .. 183) \ {182} -> 1

Counted == {196, 204, 205, 212, 220, 9, 25, 41, 57, 232, 246} \cup (176 .. 183)

\* C16: every instruction ends after a fixed number of micro-steps,
\* whatever the memory holds, and the next cycle fetches an opcode: CALL
\* takes 6 steps when taken and 3 when not, ADD HL,rr 2, ADD SP,e8 4,
\* OR A,r 1, OR A,[HL] and OR A,d8 2.
C16_StepCount ==
  ev.kind = "step" /\ cpu.last.k = Instruction_new(cpu.code).k
    /\ cpu.code \in Counted =>
      /\ cpu.ret = "None" =>
           /\ cpu.steps = StepCount(cpu.code, cpu.f)
           /\ cpu.op = OperationDefault
      /\ cpu.ret = "Some" => cpu.steps < StepCount(cpu.code, cpu.f)
      /\ cpu.ret \in {"None", "Some"}

C16_Witness ==
  /\ StepWas("Call", "Jump")
  /\ cpu.code = 220
  /\ cpu.steps = 6
  /\ cpu.ret = "None"
  /\ cpu.pc = 4105

ClockStep == ev'.kind = "clock"

\* A flag raised by the PPU or the timer during a cycle is not seen by the
\* wake-check or the CPU of that cycle, and is seen by the next cycle's; the
\* CPU runs on every fourth cycle only, the PPU and the timer on each.
C20_FlagsNextTick ==
  [][ ClockStep =>
        /\ cpu.halted /\ ~Pic_int(mmu) => cpu' = cpu
        /\ Pic_int(mmu) => ~cpu'.halted
        /\ cpu' # cpu /\ ~cpu.halted => gb.cycle % 4 = 0
        /\ gb'.counter = gb.counter + 1
        /\ Ppu_enabled(mmu) => ppu'.dot = (ppu.dot + 1) % 456
    ]_vars

\* C20: every tick ends with the DMA's byte, after the wake-check, the CPU
\* micro-step, the PPU dot and the timer increment: a transfer that is
\* requested or under way advances in each tick.
C20_DmaByte ==
  [][ClockStep /\ Dma_enabled(mmu.dma) => mmu'.dma # mmu.dma]_vars

\* A halted CPU, woken in the tick after the one that raised VBlank.
C20_Woken ==
  /\ ev.kind = "clock"
  /\ ~cpu.halted /\ cpu.insns = 0
  /\ mmu.iflag = 1 /\ mmu.ie = 1
  /\ mmu.dma.state = "Req"

\* An interrupt is pending when one of the five is flagged in IF and
\* enabled in IE, both read over the bus.
Pending(m) ==
  \E n \in 0 .. 4 :
    /\ (BusRead(m, 65295) \div (2 ^ n)) % 2 = 1
    /\ (BusRead(m, 65535) \div (2 ^ n)) % 2 = 1

\* C21: a halted CPU is woken at the start of a tick exactly when
\* (IF & IE & 0x1f) is not 0, whatever IME is; bits 5-7 of IF and IE wake
\* nothing, and with nothing pending a halted CPU stays halted.
C21_Wake ==
  [][ClockStep /\ cpu.halted => (cpu'.halted <=> ~Pending(mmu))]_vars

C21_Witness ==
  /\ ev.kind = "clock" /\ gb.cycle > 4
  /\ cpu.halted /\ cpu.ime
  /\ BusRead(mmu, 65295) = 229
  /\ BusRead(mmu, 65535) = 224

ResetStep == ev'.kind = "reset"

\* The machine as reset() sees it.
Machine(c, p, m, g) == [cpu |-> c, ppu |-> p, mmu |-> m, gb |-> g]

\* What the CPU reads over the bus at a sample of every region.
BusView(m) ==
  [a \in {0, 255, 256, 32768, 40960, 49152, 57344, 65024, 65280, 65284,
          65295, 65344, 65350, 65360, 65408, 65535} |-> BusRead(m, a)]

C23_EramPersists ==
  [][ResetStep => BusRead(mmu', 40960) = BusRead(mmu, 40960)]_vars

(***************************************************************************)
(* Cartridge construction: the images tried and the three constructors.    *)
(***************************************************************************)
\* Image lengths: around the header, around the smallest, the second and
\* the largest ROM size.
ImageLens ==
  {0, 256, 257, 335, 336, 32767, 32768, 32769, 65536, 8388607, 8388608, 8388609}

ImageSeeds == {3, 255}

Images ==
  { [len |-> l, seed |-> s, parses |-> p, checks |-> c, cart |-> k,
     ram |-> r, romsz |-> z, ramsz |-> 8192]
    : l \in ImageLens, s \in ImageSeeds, p \in BOOLEAN, c \in BOOLEAN,
      k \in Kinds, r \in BOOLEAN, z \in RomSizes }

InitCart ==
  /\ mmu = NewMmu(FALSE)
  /\ ev = NoEvent
  /\ gb = GbDefault
  /\ nops = 0
  /\ hist = NoHist
  /\ ppu = PpuDefault
  /\ cpu = CpuDefault
  /\ debug_assertions = FALSE
  /\ \E img \in Images : ctor = [img |-> img, fn |-> "none", out |-> Panicked]

\* Cartridge::new(rom)
New ==
  /\ ctor.fn = "none"
  /\ ctor' = [ctor EXCEPT !.fn = "new", !.out = Cartridge_new(ctor.img)]
  /\ UNCHANGED <<mmu, ev, nops, hist, ppu, cpu, gb, debug_assertions>>

\* Cartridge::checked(rom)
Checked ==
  /\ ctor.fn = "none"
  /\ ctor' = [ctor EXCEPT !.fn = "checked", !.out = Cartridge_checked(ctor.img)]
  /\ UNCHANGED <<mmu, ev, nops, hist, ppu, cpu, gb, debug_assertions>>

\* Cartridge::unchecked(rom)
Unchecked ==
  /\ ctor.fn = "none"
  /\ ctor' = [ctor EXCEPT !.fn = "unchecked", !.out = Cartridge_unchecked(ctor.img)]
  /\ UNCHANGED <<mmu, ev, nops, hist, ppu, cpu, gb, debug_assertions>>

NextCart == New \/ Checked \/ Unchecked

SpecCart == InitCart /\ [][NextCart]_vars

\* The indices looked at in a ROM buffer of the image img.
RomProbes(img) ==
  {0, 256, 335, 32767, 32768, 65535, 8388607}
    \cup {img.len, img.len + 1} \cup {i \in {img.len - 1} : i >= 0}

\* C24: for an input of length L and a declared ROM size R the cartridge's
\* ROM buffer has exactly R bytes: byte i is input[i] for i < min(L, R) and
\* 0xff for L <= i < R, and the input from index R on is dropped; so
\* Cartridge::new of an image of every size from 32 KiB to 8 MiB succeeds
\* and rom().read(0x0100) is input[0x0100].
C24_RomBuffer ==
  /\ ctor.out.tag = "Ok" =>
       /\ ctor.out.rom.len = ctor.out.header.romsz
       /\ \A i \in RomProbes(ctor.img) :
            i < ctor.out.header.romsz =>
              Cartridge_rom_read(ctor.out, i) =
                IF i < ctor.img.len THEN ImageByte(ctor.img, i) ELSE 255
  /\ ( /\ ctor.fn = "new"
       /\ ctor.img.parses
       /\ ctor.img.len >= HEADER_END
       /\ ctor.img.cart \in {"NoMbc", "Mbc1", "Mbc5"} ) =>
       /\ ctor.out.tag = "Ok"
       /\ ctor.out.header.romsz = ctor.img.romsz
       /\ Cartridge_rom_read(ctor.out, 256) = ImageByte(ctor.img, 256)

C24_Witness ==
  /\ ctor.fn = "new" /\ ctor.out.tag = "Ok"
  /\ ctor.img.len = 32769 /\ ctor.img.romsz = 65536 /\ ctor.img.seed = 3
  /\ Cartridge_rom_read(ctor.out, 32768) = ImageByte(ctor.img, 32768)
  /\ Cartridge_rom_read(ctor.out, 32769) = 255
  /\ Cartridge_rom_read(ctor.out, 256) = 4

\* C25: Cartridge::checked of an image whose length differs from the ROM
\* size its header declares fails with Error::Mismatch.
C25_Mismatch ==
  ( /\ ctor.fn = "checked"
    /\ Header_try_from(ctor.img).ok
    /\ ctor.img.len # ctor.img.romsz ) =>
    ctor.out.tag = "Err" /\ ctor.out.err = "Mismatch"

\* C26: Cartridge::new and Cartridge::checked of an image whose header
\* declares a kind other than NoMbc, Mbc1 or Mbc5 return
\* Err(Error::Unimplemented(kind)) with that kind; they do not panic.
C26_Unimplemented ==
  ( /\ \/ ctor.fn = "new"
       \/ ctor.fn = "checked" /\ Header_check(ctor.img)
    /\ Header_try_from(ctor.img).ok
    /\ ctor.img.cart \notin {"NoMbc", "Mbc1", "Mbc5"} ) =>
    /\ ctor.out.tag = "Err"
    /\ ctor.out.err = "Unimplemented"
    /\ ctor.out.kind = ctor.img.cart

C26_Witness ==
  /\ ctor.fn = "checked" /\ ctor.img.cart = "Mbc3"
  /\ ctor.out.tag = "Err" /\ ctor.out.err = "Unimplemented"
  /\ ctor.out.kind = "Mbc3"

\* C27: Cartridge::unchecked produces a cartridge for every image, whether
\* or not its header parses and whatever kind it declares.
C27_ForceSucceeds ==
  ctor.fn = "unchecked" => ctor.out.tag = "Ok"

\* A write that the bus hands to the device dev.
WriteTo(dev) ==
  ev'.kind = "write" /\ Bus_at(MemMap, mmu, ev'.addr).dev = dev

\* Cells of the ROM buffer looked at after a write.
RomCells == {0, 255, 256, 335, 32767}

\* C28: on a NoMbc cartridge a write to the ROM changes no ROM byte and
\* does not fail; a write to 0xa000-0xbfff is read back when the cartridge
\* has RAM, and otherwise is dropped without error, the address reading 0xff.
C28_NoMbc ==
  [][ /\ WriteTo("rom") =>
           /\ ~mmu'.panic
           /\ mmu'.cart = mmu.cart
           /\ \A i \in RomCells \cup {ev'.addr} :
                RawRomRead(mmu'.cart, i) = CartRom(i)
      /\ WriteTo("eram") =>
           /\ InEram(ev'.addr)
           /\ ~mmu'.panic
           /\ mmu.cart.ram => BusRead(mmu', ev'.addr) = ev'.val
           /\ ~mmu.cart.ram => /\ BusRead(mmu', ev'.addr) = 255
                               /\ mmu'.cart = mmu.cart
    ]_vars

C28_Witness ==
  /\ ev.kind = "write" /\ ev.val = 170 /\ ev.addr = 49151 /\ nops = 2
  /\ ~mmu.cart.ram
  /\ BusRead(mmu, 49151) = 255
  /\ BusRead(mmu, 32767) = CartRom(32767)
  /\ mmu.boot.off

(***************************************************************************)
(* Writes to work RAM, to its echo and to what lies 0x2000 above the part  *)
(* of work RAM that has no echo.                                           *)
(***************************************************************************)
\* Both ends of 0xc000-0xddff, of 0xde00-0xdfff, of 0xe000-0xfdff, and
\* 0xfe00, 0xffff: the addresses 0x2000 above 0xde00 and 0xdfff.
EchoAddrs ==
  {49152, 49153, 56831, 56832, 57343, 57344, 57345, 65023, 65024, 65535}

NextEcho == \E addr \in EchoAddrs, value \in WriteVals : Write(addr, value)

SpecEcho == InitBus /\ [][NextEcho]_vars

\* C29: a byte written at 0xc000+k is read at 0xe000+k and a byte written
\* at 0xe000+k is read at 0xc000+k, for k in 0 .. 0x1dff; a write at
\* 0xde00-0xdfff shows at no address of the echo nor 0x2000 above itself.
C29_Echo ==
  [][ ev'.kind = "write" =>
        /\ ~mmu'.panic
        /\ 49152 <= ev'.addr /\ ev'.addr <= 56831 =>
             /\ BusRead(mmu', ev'.addr) = ev'.val
             /\ BusRead(mmu', ev'.addr + 8192) = ev'.val
        /\ 57344 <= ev'.addr /\ ev'.addr <= 65023 =>
             /\ BusRead(mmu', ev'.addr) = ev'.val
             /\ BusRead(mmu', ev'.addr - 8192) = ev'.val
        /\ 56832 <= ev'.addr /\ ev'.addr <= 57343 =>
             /\ BusRead(mmu', ev'.addr) = ev'.val
             /\ BusRead(mmu', ev'.addr + 8192) = BusRead(mmu, ev'.addr + 8192)
             /\ \A e \in EchoAddrs :
                  57344 <= e /\ e <= 65023 => BusRead(mmu', e) = BusRead(mmu, e)
    ]_vars

C29_Witness ==
  /\ ev.kind = "write" /\ ev.addr = 65023 /\ ev.val = 170 /\ nops = 2
  /\ BusRead(mmu, 56831) = 170
  /\ BusRead(mmu, 56832) = 1
  /\ BusRead(mmu, 65024) = 0

\* The regions of the bus contract and the addresses each covers.
Covers(m, region, a) ==
  CASE region = "mmio"     -> \/ a = 65535
                              \/ /\ 65280 <= a /\ a <= 65407
                                 /\ \E i \in DOMAIN IoMap : InRange(IoMap[i], a - 65280)
    [] region = "cart"     -> a <= 32767 \/ InEram(a)
    [] region = "ram"      -> InVram(a) \/ InWram(a) \/ InOam(a) \/ InHram(a)
    [] region = "echo"     -> 57344 <= a /\ a <= 65023
    [] region = "boot"     -> ~m.boot.off /\ a <= 255
    [] region = "unmapped" -> TRUE

\* The byte a region holds for an address it covers.
RegionByte(m, region, a) ==
  CASE region = "mmio"     -> IF a = 65535 THEN m.ie
                              ELSE Dev_read(m, "mmio", a - 65280)
    [] region = "cart"     -> IF a <= 32767 THEN RawRomRead(m.cart, a)
                              ELSE RawRamRead(m.cart, a - 40960)
    [] region = "ram"      -> IF InVram(a) THEN RamRead(m.vram, a - 32768)
                              ELSE IF InWram(a) THEN RamRead(m.wram, a - 49152)
                              ELSE IF InOam(a) THEN RamRead(m.oam, a - 65024)
                              ELSE RamRead(m.hram, a - 65408)
    [] region = "echo"     -> RamRead(m.wram, a - 57344)
    [] region = "boot"     -> BOOT[a + 1]
    [] region = "unmapped" -> 255

\* The byte of the first region of an order that covers the address.
Ranked(order, m, a) ==
  RegionByte(m, order[Min({i \in DOMAIN order : Covers(m, order[i], a)})], a)

\* The order of the bus contract as written, and with the enabled boot ROM
\* ahead of the cartridge.
StatedOrder == <<"mmio", "cart", "ram", "echo", "boot", "unmapped">>
BootFirstOrder == <<"mmio", "boot", "cart", "ram", "echo", "unmapped">>

\* C30, as stated: a read returns the byte of the first region covering the
\* address in the order MMIO, cartridge, onboard RAM, echo, boot ROM (while
\* enabled), unmapped.
C30_StatedPriority ==
  \A a \in WriteAddrs \cup BootWindow : BusRead(mmu, a) = Ranked(StatedOrder, mmu, a)

\* C30, amended: a read returns the byte of the first region covering the
\* address in the order MMIO, boot ROM (while enabled), cartridge, onboard
\* RAM, echo, unmapped: at 0x0000-0x00ff the enabled boot ROM supplies the
\* byte, and the cartridge does once the boot ROM is disabled.
C30_Priority ==
  \A a \in WriteAddrs \cup BootWindow : BusRead(mmu, a) = Ranked(BootFirstOrder, mmu, a)

C30_Witness ==
  /\ ev.kind = "write" /\ ev.addr = 256 /\ ev.val = 170
  /\ ~mmu.boot.off
  /\ BusRead(mmu, 0) = BOOT[1]
  /\ BOOT[1] # RawRomRead(mmu.cart, 0)
  /\ BusRead(mmu, 256) = RawRomRead(mmu.cart, 256)
  /\ BusRead(mmu, 65184) = 255

(***************************************************************************)
(* Writes to the boot ROM window, to the boot ROM's disable register and   *)
(* to the cartridge ROM behind the window.                                 *)
(***************************************************************************)
\* Both ends and the middle of 0x0000-0x00ff, the first address after it,
\* the end of the cartridge ROM, and 0xff50.
BootAddrs == {0, 1, 127, 255, 256, 32767, 65360}

NextBoot == \E addr \in BootAddrs, value \in WriteVals : Write(addr, value)

SpecBoot == InitBus /\ [][NextBoot]_vars

\* C31: while the boot ROM is enabled a bus write at 0x0000-0x00ff panics;
\* it changes nothing else, the cartridge included.  Once the boot ROM is
\* disabled the same write reaches the cartridge ROM and does not panic.
C31_BootWritePanics ==
  [][ ev'.kind = "write" /\ ev'.addr <= 255 =>
        /\ ~mmu.boot.off => /\ mmu'.panic
                            /\ mmu' = [mmu EXCEPT !.panic = TRUE]
        /\ mmu.boot.off => ~mmu'.panic
    ]_vars

C31_Witness ==
  /\ ev.kind = "write" /\ ev.addr = 0 /\ ev.val = 170 /\ nops = 2
  /\ ~mmu.boot.off
  /\ mmu.panic
  /\ RawRomRead(mmu.cart, 0) = CartRom(0)

(***************************************************************************)
(* MBC1 (hw/cart/mbc/mbc1.rs): the cartridge's ROM device decodes writes   *)
(* into its bank registers and reads through the selected bank.            *)
(***************************************************************************)
BANK == 16384

\* A ROM whose byte at offset N * 0x4000 is N; 0xff elsewhere.
BankedRom(off) == IF off % BANK = 0 THEN (off \div BANK) % 256 ELSE 255

\* An Mbc1 built with a ROM of the smallest size, whatever the header says.
Mbc1_with_rom_32k(romsz, ramsz, has_ram) ==
  [ kind |-> "Mbc1", ram |-> has_ram, romlen |-> 32768,
    ramlen |-> IF ramsz > 8192 THEN ramsz ELSE 8192,
    ram_enable |-> FALSE, rom_bank_lo |-> 1, bank_hi |-> 0, mode |-> "ROM" ]

\* An Mbc1 built with the lengths of its two memories swapped.
Mbc1_with_swapped(romsz, ramsz, has_ram) ==
  [ kind |-> "Mbc1", ram |-> has_ram,
    romlen |-> IF ramsz > 8192 THEN ramsz ELSE 8192,
    ramlen |-> romsz,
    ram_enable |-> FALSE, rom_bank_lo |-> 1, bank_hi |-> 0, mode |-> "ROM" ]

\* Cartridge::mbc, Kind::Mbc1: Mbc1::with(Memory { buf: rom, len: romsz },
\* Memory { buf: [null, ram][has_ram], len: ramsz.max(0x2000) }).
Mbc1_with(romsz, ramsz, has_ram) ==
  [ kind |-> "Mbc1", ram |-> has_ram, romlen |-> romsz,
    ramlen |-> IF ramsz > 8192 THEN ramsz ELSE 8192,
    ram_enable |-> FALSE, rom_bank_lo |-> 1, bank_hi |-> 0, mode |-> "ROM" ]

\* Mbc1: a write to the ROM device at idx sets a bank register.
Mbc1_write(cart, idx, value) ==
  IF idx < 8192
    THEN [cart EXCEPT !.ram_enable = (BitAnd(value, 15) = 10)]
  ELSE IF idx < 16384
    THEN [cart EXCEPT !.rom_bank_lo =
            IF BitAnd(value, 31) = 0 THEN 1 ELSE BitAnd(value, 31)]
  ELSE IF idx < 24576
    THEN [cart EXCEPT !.bank_hi = BitAnd(value, 3)]
  ELSE [cart EXCEPT !.mode = IF BitAnd(value, 1) = 1 THEN "RAM" ELSE "ROM"]

\* Mbc1: the ROM bank a read at idx goes through, masked to the bank count.
Mbc1_bank(cart, idx) ==
  BitAnd(IF idx >= BANK THEN BitOr(cart.bank_hi * 32, cart.rom_bank_lo)
         ELSE IF cart.mode = "RAM" THEN cart.bank_hi * 32
         ELSE 0,
         (cart.romlen \div BANK) - 1)

\* Mbc1: a read of the ROM device at idx.
Mbc1_read(cart, idx) ==
  BankedRom(Mbc1_bank(cart, idx) * BANK + (idx % BANK))

(***************************************************************************)
(* An MBC1 cartridge on the bus: writes to its control ranges.             *)
(***************************************************************************)
MaxBankWrites == 4

\* ROM sizes of 2, 16, 32 and 128 banks.
Mbc1RomSizes == {32768, 262144, 524288, 2097152}

\* Addresses at the borders of the four control ranges, and 0x2100.
BankAddrs == {8191, 8192, 8448, 16384, 24575, 24576}

BankVals == {0, 1, 3, 5, 10, 32, 255}

\* The writes of the banking scenario, in order.
BankScript ==
  << [addr |-> 8448,  val |-> 5],
     [addr |-> 24576, val |-> 1],
     [addr |-> 16384, val |-> 3],
     [addr |-> 8448,  val |-> 0] >>

InitMbc1 ==
  /\ \E romsz \in Mbc1RomSizes :
       /\ mmu = [NewMmu(TRUE) EXCEPT !.cart = Mbc1_with(romsz, 32768, TRUE)]
       /\ ctor = [NoCtor EXCEPT !.img.cart = "Mbc1", !.img.romsz = romsz,
                                !.img.ramsz = 32768, !.img.ram = TRUE]
  /\ ev = NoEvent
  /\ gb = GbDefault
  /\ nops = 0
  /\ hist = 0
  /\ ppu = PpuDefault
  /\ cpu = CpuDefault
  /\ debug_assertions = TRUE

\* mmu.borrow_mut().write(addr, value) with addr in the cartridge ROM; hist
\* counts the writes of BankScript done so far, when nothing else was done.
BankWrite(addr, value) ==
  /\ nops < MaxBankWrites
  /\ Bus_at(MemMap, mmu, addr).dev = "rom"
  /\ mmu' = [mmu EXCEPT !.cart = Mbc1_write(@, Bus_at(MemMap, mmu, addr).idx, value)]
  /\ ev' = [kind |-> "write", addr |-> addr, val |-> value]
  /\ nops' = nops + 1
  /\ hist' = IF /\ hist = nops
                 /\ nops < Len(BankScript)
                 /\ BankScript[nops + 1] = [addr |-> addr, val |-> value]
               THEN hist + 1 ELSE hist
  /\ UNCHANGED <<ppu, cpu, gb, debug_assertions, ctor>>

NextMbc1 == \E addr \in BankAddrs, value \in BankVals : BankWrite(addr, value)

SpecMbc1 == InitMbc1 /\ [][NextMbc1]_vars

\* The scenario's first write, and all four of its writes, have been done
\* on a cartridge of 256 KiB.
Script256(n) == ctor.img.romsz = 262144 /\ hist = n /\ nops = n

\* C32, as stated: on a 256 KiB MBC1 cartridge whose byte at N * 0x4000 is
\* N, read(0x4000) is 5 after 0x05 is written to 0x2100, and is 0 after
\* 0x01 to 0x6000, 0x03 to 0x4000 and 0x00 to 0x2100 are then written.
C32_Stated ==
  /\ Script256(1) => Mbc1_read(mmu.cart, 16384) = 5
  /\ Script256(4) => Mbc1_read(mmu.cart, 16384) = 0

\* C32, amended: read(0x4000) is 5 after the first write and 1 after the
\* other three: the bank written as 0 is remapped to 1, and bank (3 << 5) | 1
\* masked to the 16 banks of the ROM is bank 1.
C32_Banking ==
  /\ Script256(1) => Mbc1_read(mmu.cart, 16384) = 5
  /\ Script256(4) => Mbc1_read(mmu.cart, 16384) = 1

C32_Witness ==
  /\ Script256(4)
  /\ ev = [kind |-> "write", addr |-> 8448, val |-> 0]
  /\ mmu.cart.mode = "RAM" /\ mmu.cart.bank_hi = 3 /\ mmu.cart.rom_bank_lo = 1
  /\ Mbc1_read(mmu.cart, 16384) = BankedRom(BANK)

\* C33: after any writes to the MBC1 control ranges rom_bank_lo is in 1..31
\* and bank_hi in 0..3, and a read at 0x4000 returns the ROM byte at offset
\* bank * 0x4000, bank being (bank_hi << 5) | rom_bank_lo masked to the
\* number of banks of the ROM.
C33_BankRegisters ==
  /\ mmu.cart.rom_bank_lo \in 1 .. 31
  /\ mmu.cart.bank_hi \in 0 .. 3
  /\ Mbc1_read(mmu.cart, 16384) =
       BankedRom(((mmu.cart.bank_hi * 32 + mmu.cart.rom_bank_lo)
                  % (ctor.img.romsz \div BANK)) * BANK)

C33_Witness ==
  /\ ev = [kind |-> "write", addr |-> 8192, val |-> 32]
  /\ nops = 3
  /\ ctor.img.romsz = 2097152
  /\ mmu.cart.rom_bank_lo = 1 /\ mmu.cart.bank_hi = 3
  /\ Mbc1_read(mmu.cart, 16384) = 97

(***************************************************************************)
(* The timer: the machine with the CPU halted and the LCD off, TIMA about  *)
(* to overflow, and writes to TIMA and TMA between cycles.                 *)
(***************************************************************************)
MaxTimaWrites == 1

\* TAC at the start: 262144 Hz enabled, 262144 Hz disabled, 16384 Hz enabled.
StartTac == {5, 1, 7}

StartTima == {254, 255}

StartTma == {66, 0}

TimerCounters == 10 .. 15

InitTimer ==
  /\ \E counter \in TimerCounters, tac \in StartTac, tima \in StartTima,
        tma \in StartTma :
       /\ mmu = [NewMmu(TRUE) EXCEPT
                   !.timer = (1 :> tima) @@ (2 :> tma) @@ (3 :> tac)]
       /\ gb = [GbDefault EXCEPT !.counter = counter]
  /\ ppu = PpuDefault
  /\ cpu = [CpuDefault EXCEPT !.halted = TRUE]
  /\ debug_assertions \in BOOLEAN
  /\ ctor = NoCtor
  /\ ev = NoEvent
  /\ nops = 0
  /\ hist = NoHist

\* mmu.borrow_mut().write(addr, value) with addr one of TIMA and TMA.
TimerWrite(addr, value) ==
  /\ ~mmu.panic
  /\ nops < MaxTimaWrites
  /\ \E t \in {Timer_store([mmu |-> mmu, gb |-> gb], addr, value)} :
       /\ mmu' = t.mmu
       /\ gb' = t.gb
  /\ ev' = [kind |-> "write", addr |-> addr, val |-> value]
  /\ nops' = nops + 1
  /\ UNCHANGED <<hist, ppu, cpu, debug_assertions, ctor>>

NextTimer ==
  \/ Cycle
  \/ \E addr \in {TIMA, TMA}, value \in {0, 7} : TimerWrite(addr, value)

SpecTimer == InitTimer /\ [][NextTimer]_vars

\* The Timer bit of IF.
TimerFlag(m) == (BusRead(m, 65295) \div 4) % 2 = 1

\* C34: on the cycle where TIMA overflows it reads 0 and the interrupt is
\* not yet requested; on the next cycle TIMA is loaded with TMA and the
\* Timer bit of IF is set; a write to TIMA in between cancels the reload;
\* without an overflow no cycle loads TMA or sets the Timer bit.
C34_Reload ==
  [][ /\ ClockStep /\ BusRead(mmu, TIMA) = 255 /\ ~gb.reload
                   /\ BusRead(mmu', TIMA) # 255 =>
           /\ BusRead(mmu', TIMA) = 0
           /\ gb'.reload
           /\ TimerFlag(mmu') = TimerFlag(mmu)
      /\ ClockStep /\ gb.reload =>
           /\ BusRead(mmu, TIMA) = 0
           /\ BusRead(mmu', TIMA) = BusRead(mmu, TMA)
           /\ TimerFlag(mmu')
      /\ ClockStep /\ ~gb.reload =>
           /\ TimerFlag(mmu') = TimerFlag(mmu)
           /\ BusRead(mmu', TIMA) \in
                {BusRead(mmu, TIMA), (BusRead(mmu, TIMA) + 1) % 256}
           /\ gb'.reload => BusRead(mmu, TIMA) = 255
      /\ ev'.kind = "write" /\ ev'.addr = TIMA =>
           /\ ~gb'.reload
           /\ BusRead(mmu', TIMA) = ev'.val
    ]_vars

\* TAC = 0x05, TIMA = 0xff, TMA = 0x42: the cycle after the overflow.
C34_Witness ==
  /\ ev.kind = "clock" /\ nops = 0
  /\ BusRead(mmu, 65287) = 5
  /\ BusRead(mmu, TMA) = 66
  /\ BusRead(mmu, TIMA) = 66
  /\ TimerFlag(mmu)
  /\ gb.cycle <= 7

(***************************************************************************)
(* Interrupt handler entry: the CPU a machine cycle at a time, with the    *)
(* hardware raising interrupts between its cycles.                         *)
(***************************************************************************)
MaxIntCycles == 7
MaxRaises == 1

\* IE and IF at the start, and the lines the hardware raises: VBlank,
\* Timer, Joypad.
IntIE == {0, 4, 5, 20, 31}
IntIF == {0, 4, 5, 20}
IntLines == {1, 4, 16}
IntStacks == {65534, 53248}

\* A program of OR A,B at 0xc000, the CPU between two instructions.
InitInt ==
  /\ \E enable \in IntIE, flags \in IntIF, top \in IntStacks, ime \in BOOLEAN :
       LET m == [NewMmu(TRUE) EXCEPT
                   !.wram = (0 :> 176) @@ (1 :> 176) @@ (2 :> 176)]
       IN  /\ mmu = BusWrite(BusWrite(m, 65535, enable), 65295, flags)
           /\ cpu = [CpuDefault EXCEPT !.pc = ProgramBase, !.at = ProgramBase,
                                       !.b = 1, !.sp = top, !.ime = ime]
  /\ debug_assertions \in BOOLEAN
  /\ ctor = NoCtor
  /\ ev = NoEvent
  /\ gb = GbDefault
  /\ nops = 0
  /\ hist = 0
  /\ ppu = PpuDefault

\* Cpu::cycle, one machine cycle
IntCycle ==
  /\ ~mmu.panic
  /\ hist < MaxIntCycles
  /\ cpu.op.k \in Machines \cup {"Fetch", "Int"}
  /\ \E t \in {Cpu_cycle([cpu |-> cpu, mmu |-> mmu], debug_assertions)} :
       /\ cpu' = t.cpu
       /\ mmu' = t.mmu
  /\ hist' = hist + 1
  /\ ev' = [kind |-> "step", addr |-> 0, val |-> 0]
  /\ UNCHANGED <<nops, ppu, gb, debug_assertions, ctor>>

\* Pic::req, by the PPU, the timer or the joypad between two machine cycles
IntRaise(line) ==
  /\ ~mmu.panic
  /\ nops < MaxRaises
  /\ mmu' = Pic_req(mmu, line)
  /\ nops' = nops + 1
  /\ ev' = [kind |-> "raise", addr |-> 0, val |-> line]
  /\ UNCHANGED <<cpu, hist, ppu, gb, debug_assertions, ctor>>

NextInt ==
  \/ IntCycle
  \/ \E line \in IntLines : IntRaise(line)

SpecInt == InitInt /\ [][NextInt]_vars

\* Interrupt n is flagged and enabled.
IntPending(m, n) == BitSet(m.iflag, n) /\ BitSet(m.ie, n)

\* The machine cycle just run was micro-step number k of the handler
\* entry, named st.
EntryStep(k, st) ==
  /\ hist' = hist + 1
  /\ cpu'.last.k = "Int"
  /\ cpu'.steps = k
  /\ cpu'.last.s = st

\* C35: interrupt handler entry takes exactly five machine cycles: idle,
\* idle, push of PC's high byte, push of PC's low byte, jump to 0x40 + 8*n
\* for the lowest n both enabled and flagged; the jump clears bit n of IF
\* and nothing else of it, and clears IME; the entry starts only between
\* two instructions with IME set and an interrupt pending, so that no
\* second one is dispatched while IME is clear.
C35_Entry ==
  [][ /\ (hist' = hist + 1 /\ cpu'.last.k = "Int")
         => \/ EntryStep(1, "Idle0")
            \/ EntryStep(2, "Idle1")
            \/ EntryStep(3, "Push0")
            \/ EntryStep(4, "Push1")
            \/ EntryStep(5, "Jump")
      /\ (hist' = hist + 1 /\ cpu.op = OperationDefault)
         => (cpu'.last.k = "Int" <=> (cpu.ime /\ Pic_int(mmu)))
      /\ (EntryStep(1, "Idle0") \/ EntryStep(2, "Idle1"))
         => /\ mmu' = mmu
            /\ cpu'.pc = cpu.pc /\ cpu'.sp = cpu.sp /\ cpu'.ime = cpu.ime
            /\ cpu'.txn = << >>
            /\ cpu'.op.k = "Int"
      /\ EntryStep(3, "Push0")
         => /\ cpu'.sp = U16(cpu.sp + 65535)
            /\ mmu' = BusWrite(mmu, cpu'.sp, cpu.pc \div 256)
            /\ BusRead(mmu', cpu'.sp) = cpu.pc \div 256
            /\ cpu'.pc = cpu.pc /\ cpu'.ime = cpu.ime
            /\ cpu'.op.k = "Int"
      /\ EntryStep(4, "Push1")
         => /\ cpu'.sp = U16(cpu.sp + 65535)
            /\ mmu' = BusWrite(mmu, cpu'.sp, cpu.pc % 256)
            /\ BusRead(mmu', cpu'.sp) = cpu.pc % 256
            /\ cpu'.pc = cpu.pc /\ cpu'.ime = cpu.ime
            /\ cpu'.op.k = "Int"
      /\ EntryStep(5, "Jump")
         => \E n \in 0 .. 4 :
              /\ IntPending(mmu, n)
              /\ \A k \in 0 .. 4 : IntPending(mmu, k) => n <= k
              /\ cpu'.pc = 64 + 8 * n
              /\ mmu' = [mmu EXCEPT !.iflag = @ - 2 ^ n]
              /\ cpu'.sp = cpu.sp
              /\ ~cpu'.ime
              /\ cpu'.op = OperationDefault
    ]_vars

\* VBlank and Timer were both pending with IME set: the entry has jumped to
\* 0x40 with the return address 0xc000 on the stack, Timer stays flagged
\* and pending, and with IME clear the next cycle has fetched at 0x40.
C35_Witness ==
  /\ hist = 6
  /\ cpu.at = 64
  /\ cpu.pc = 65
  /\ cpu.last = OperationDefault
  /\ ~cpu.ime
  /\ mmu.ie = 31
  /\ BitSet(mmu.iflag, 2) /\ ~BitSet(mmu.iflag, 0)
  /\ cpu.sp = 65532
  /\ BusRead(mmu, 65533) = 192
  /\ BusRead(mmu, 65532) = 0

\* The opcodes of CALL a16 and CALL cc, a16, and what each asks of F.
CallOpcodes == {196, 204, 205, 212, 220}

CallCond(code, flags) ==
  CASE code = 196 -> (flags \div 128) % 2 = 0
    [] code = 204 -> (flags \div 128) % 2 = 1
    [] code = 212 -> (flags \div 16) % 2 = 0
    [] code = 220 -> (flags \div 16) % 2 = 1
    [] code = 205 -> TRUE

\* The micro-step about to run is step st of a CALL.
CallAt(st) ==
  /\ ev'.kind = "step"
  /\ cpu.op.k = "Call"
  /\ cpu.op.s = st
  /\ cpu.code \in CallOpcodes

\* C36: CALL and CALL cc read the target's low byte and then its high byte
\* from [PC], PC moving on by one each time; the condition is evaluated on
\* the flags after both fetches; if it is false the instruction ends with
\* no stack write and PC at the next instruction; if it is true the high
\* byte of the return address is pushed, then its low byte, and only then
\* PC becomes the little-endian target; the flags are never modified.
C36_Call ==
  [][ /\ CallAt("Fetch0")
         => /\ cpu'.op = Op("Call", "Fetch1", BusRead(mmu, cpu.pc), 0)
            /\ cpu'.pc = U16(cpu.pc + 1)
            /\ cpu.pc = U16(cpu.at + 1)
            /\ mmu' = mmu /\ cpu'.sp = cpu.sp
      /\ CallAt("Fetch1")
         => /\ cpu'.op = Op("Call", "Check",
                            BusRead(mmu, cpu.pc) * 256 + cpu.op.x, 0)
            /\ cpu'.pc = U16(cpu.pc + 1)
            /\ cpu.pc = U16(cpu.at + 2)
            /\ mmu' = mmu /\ cpu'.sp = cpu.sp
      /\ CallAt("Check")
         => /\ cpu'.pc = cpu.pc /\ cpu.pc = U16(cpu.at + 3)
            /\ mmu' = mmu /\ cpu'.sp = cpu.sp
            /\ cpu'.txn = << >>
            /\ cpu'.ret \in {"Some", "None"}
            /\ IF CallCond(cpu.code, cpu.f)
                 THEN cpu'.op = Op("Call", "Push0", cpu.op.x, 0)
                 ELSE cpu'.op = OperationDefault /\ cpu'.ret = "None"
      /\ CallAt("Push0")
         => /\ cpu'.sp = U16(cpu.sp + 65535)
            /\ mmu' = BusWrite(mmu, cpu'.sp, U16(cpu.at + 3) \div 256)
            /\ cpu'.pc = cpu.pc
            /\ cpu'.op.s = "Push1" /\ cpu'.op.x = cpu.op.x
      /\ CallAt("Push1")
         => /\ cpu'.sp = U16(cpu.sp + 65535)
            /\ mmu' = BusWrite(mmu, cpu'.sp, U16(cpu.at + 3) % 256)
            /\ cpu'.pc = cpu.pc
            /\ cpu'.op = Op("Call", "Jump", cpu.op.x, 0)
      /\ CallAt("Jump")
         => /\ cpu'.pc = cpu.op.x
            /\ cpu'.pc = BusRead(mmu, U16(cpu.at + 1))
                           + 256 * BusRead(mmu, U16(cpu.at + 2))
            /\ mmu' = mmu /\ cpu'.sp = cpu.sp
            /\ cpu'.op = OperationDefault /\ cpu'.ret = "None"
      /\ (ev'.kind = "step" /\ cpu.op.k = "Call" /\ cpu.code \in CallOpcodes)
         => cpu'.f = cpu.f
    ]_vars

\* CALL NC, 0x1009 at 0xc000 with Z set and C clear has run its six steps:
\* PC is 0x1009, the return address 0xc003 lies on the stack high byte
\* first, and F is as it was.
C36_Witness ==
  /\ ev.kind = "step"
  /\ cpu.last = Op("Call", "Jump", 4105, 0)
  /\ cpu.code = 212
  /\ cpu.steps = 6
  /\ cpu.pc = 4105
  /\ cpu.f = 128
  /\ cpu.sp = 65532
  /\ BusRead(mmu, 65533) = 192
  /\ BusRead(mmu, 65532) = 3

\* The step is a write to 0xff46 that finds the engine busy.
IgnoredWrite ==
  /\ ev'.kind = "write" /\ ev'.addr = 65350
  /\ mmu.dma.state # "Off"

\* C37: a read of 0xff46 returns the last byte written to it, also when
\* the write was ignored because a transfer was requested or under way; an
\* ignored write changes neither the state, nor idx, nor the source page
\* latched by the request, and the transfer goes on copying from the page
\* first requested.
C37_IgnoredWrite ==
  /\ [][ /\ (ev'.kind = "write" /\ ev'.addr = 65350)
            => BusRead(mmu', 65350) = ev'.val
         /\ ~(ev'.kind = "write" /\ ev'.addr = 65350)
            => BusRead(mmu', 65350) = BusRead(mmu, 65350)
         /\ IgnoredWrite
            => /\ mmu'.dma.state = mmu.dma.state
               /\ mmu'.dma.idx = mmu.dma.idx
               /\ mmu'.dma.src = mmu.dma.src
               /\ mmu' = [mmu EXCEPT !.dma.page = ev'.val]
         /\ (ev'.kind = "cycle" /\ mmu.dma.state = "On")
            => RamRead(mmu'.oam, mmu.dma.idx)
                 = BusRead(mmu, hist.page * 256 + mmu.dma.idx)
       ]_vars
  /\ [](mmu.dma.state # "Off" => mmu.dma.src = hist.page)

\* 0xc0 was requested and 0x80 written during the transfer: the register
\* reads 0x80, and the transfer has ended with OAM holding what WRAM holds.
C37_Witness ==
  /\ mmu.dma.state = "Off"
  /\ hist.page = 192 /\ ~hist.clean /\ hist.srcw = 0
  /\ nops = 2
  /\ hist.since = 161
  /\ BusRead(mmu, 65350) = 128
  /\ OamIs(mmu, hist.pat)
  /\ ~OamIs(mmu, hist.pat + 1)

\* C38: Dma::enabled() holds exactly when the state is not Off, and
\* Dma::cycle() panics only in state Off; a caller that cycles the engine
\* only while enabled() holds never reaches the panic, and after the cycle
\* that copies the last byte enabled() is false until the next write to
\* 0xff46.
C38_Enabled ==
  /\ [](Dma_enabled(mmu.dma) <=> mmu.dma.state \in {"Req", "On"})
  /\ [](~mmu.panic => (Dma_cycle(mmu).panic <=> mmu.dma.state = "Off"))
  /\ [](~mmu.panic)
  /\ [][ /\ (ev'.kind = "cycle" /\ mmu.dma.state = "On"
               /\ mmu.dma.idx = OAM - 1)
            => ~Dma_enabled(mmu'.dma)
         /\ (~Dma_enabled(mmu.dma) /\ Dma_enabled(mmu'.dma))
            => ev'.kind = "write" /\ ev'.addr = 65350
         /\ (ev'.kind = "cycle") => Dma_enabled(mmu.dma)
       ]_vars

\* The cycle that copied byte 159 has run: the engine is not enabled, and
\* one more cycle would panic.
C38_Witness ==
  /\ ev.kind = "cycle"
  /\ hist.since = 161
  /\ RamRead(mmu.oam, OAM - 1) = BusRead(mmu, hist.page * 256 + OAM - 1)
  /\ ~Dma_enabled(mmu.dma)
  /\ Dma_cycle(mmu).panic
  /\ ~mmu.panic

\* The CPU ran a micro-step in the tick just made.
CpuRan(g) == \E i \in DOMAIN g.ran : g.ran[i] = "cpu"

\* C39 (as stated): what follows GameBoy::reset() does not depend on the
\* number of ticks run before it.  A machine reset before its first tick
\* runs the CPU in the first tick after the reset, so every machine does:
\* the tick that follows a reset runs a CPU micro-step, and the divider
\* phase after a reset is that of a new machine.
C39_ResetForgetsTicks ==
  [][ /\ ResetStep => gb'.cycle % 4 = GbDefault.cycle % 4
      /\ (ev.kind = "reset" /\ ev'.kind = "clock") => CpuRan(gb')
    ]_vars

(***************************************************************************)
(* The window line counter: the last lines of a frame with the window on   *)
(* show, the fetcher on either layer at each Draw cycle, and the CPU       *)
(* writing to LY.                                                          *)
(***************************************************************************)
MaxWinLines == 2
MaxLyWrites == 1

\* The line the run starts on and the counter there: no line of the frame
\* or every line of it has shown the window.
WinStarts ==
  { [ly |-> 0,   winln |-> 0],
    [ly |-> 142, winln |-> 142],
    [ly |-> 143, winln |-> 0],
    [ly |-> 143, winln |-> 143] }

\* The bytes the CPU writes to LY.
LyVals == {0, 142}

InitWin ==
  /\ \E start \in WinStarts :
       /\ mmu = [NewMmu(TRUE) EXCEPT !.lcd = (0 :> 145) @@ (4 :> start.ly)]
       /\ ppu = [PpuDefault EXCEPT !.winln = start.winln]
  /\ ev = NoEvent
  /\ gb = GbDefault
  /\ nops = 0
  /\ hist = NoHist
  /\ cpu = CpuDefault
  /\ debug_assertions \in BOOLEAN
  /\ ctor = NoCtor

\* if ppu.enabled() { ppu.cycle() }, a pixel shifted out at every Draw
\* cycle and the fetcher on the given layer
WinTick(layer) ==
  /\ ~mmu.panic
  /\ Ppu_enabled(mmu)
  /\ hist.lines < MaxWinLines
  /\ ppu.mode # "Draw" => layer = "Background"
  /\ \E s \in {[ppu |-> ppu, mmu |-> [mmu EXCEPT !.req = 0]]} :
     \E t \in {Ppu_cycle(s, ~debug_assertions, BgPixel, layer)} :
       /\ ppu' = t.ppu
       /\ mmu' = t.mmu
       /\ hist' = PpuHist(hist, s, t, BgPixel)
  /\ ev' = [kind |-> "tick", addr |-> 0, val |-> Ppu_ly(mmu), layer |-> layer]
  /\ UNCHANGED <<nops, cpu, gb, debug_assertions, ctor>>

\* mmu.write(0xff44, value), a CPU write to LY
LyWrite(value) ==
  /\ ~mmu.panic
  /\ nops < MaxLyWrites
  /\ ppu.dot \in LcdWriteDots
  /\ mmu' = BusWrite(mmu, 65348, value)
  /\ ev' = [kind |-> "write", addr |-> 65348, val |-> value]
  /\ nops' = nops + 1
  /\ hist' = [hist EXCEPT !.lyw = TRUE]
  /\ UNCHANGED <<ppu, cpu, gb, debug_assertions, ctor>>

NextWin ==
  \/ \E layer \in Layers : WinTick(layer)
  \/ \E value \in LyVals : LyWrite(value)

SpecWin == InitWin /\ [][NextWin]_vars

\* A Draw step adds one to the counter exactly when it is the step on
\* which LX reaches 160 with the fetcher on the Window layer; an HBlank
\* step resets it when it enters VBlank and leaves it alone otherwise.
C40_Steps ==
  /\ (DrawStep /\ ~mmu'.panic) =>
       ppu'.winln = IF ppu'.lx = 160 /\ ev'.layer = "Window"
                      THEN ppu.winln + 1 ELSE ppu.winln
  /\ HBlankStep =>
       ppu'.winln = IF ppu'.mode = "VBlank" THEN 0 ELSE ppu.winln

\* C40 (as stated): the window line counter grows by exactly one at the
\* end of a line's Draw mode iff the fetcher is on the Window layer when LX
\* reaches 160, is changed by no other Draw or HBlank step, and is reset
\* to 0 by the HBlank step that enters VBlank; hence it never exceeds 144.
C40_WindowLine ==
  /\ [][C40_Steps]_vars
  /\ [](ppu.winln <= 144)

====
